---- MODULE Spec2Model ----
(***************************************************************************)
(* Model of the website scraping pipeline of app.py (scrape_website and    *)
(* the extractors it calls) and of the three handlers that consume a       *)
(* scrape result (Add restaurant, Generate Copy, Detect).                  *)
(*                                                                         *)
(* Strings the code inspects character by character (URL paths, hex        *)
(* colours, phone numbers) are sequences of one-character strings; strings *)
(* the code only stores or compares whole are TLA+ strings.  Page text is  *)
(* a sequence of runs [kind, path, len]: what the run is, which page it    *)
(* came from and how many characters it has, so that lengths, joins and    *)
(* slices are computed exactly without enumerating characters.             *)
(***************************************************************************)
EXTENDS Integers, Sequences, FiniteSets, TLC

\* ------------------------------------------------------------------------
\* Bounds of the model
\* ------------------------------------------------------------------------

\* At most this many of the subpage GETs of one scrape answer 200.
MaxLivePages == 2

\* ------------------------------------------------------------------------
\* Program constants
\* ------------------------------------------------------------------------

TEXT_LIMIT == 8000

MIN_COMBINED == 50

MIN_SUBPAGE_TEXT == 30

MAX_SUBPAGES == 10

HOME_TIMEOUT == 10

SUB_TIMEOUT == 5

SHEET_TIMEOUT == 5

SEARCH_TIMEOUT == 10

IMAGE_TIMEOUT == 10

PROMPT_LIMIT == 6000

DOMINANT_COUNT == 3

INLINE_WEIGHT == 3

NEUTRAL_SPREAD == 30

MIN_ICON_WIDTH == 100

\* @st.cache_data(ttl=300)
TTL == 300

\* ------------------------------------------------------------------------
\* Characters
\* ------------------------------------------------------------------------

\* The characters the model's strings use, in ascending code-point order
\* (Python compares str values by code point).
Ascii ==
  << " ", "#", "+", "-", ".", "/",
     "0", "1", "2", "3", "4", "5", "6", "7", "8", "9",
     "A", "B", "C", "D", "E", "F", "G", "H", "I", "J", "K", "L", "M",
     "N", "O", "P", "Q", "R", "S", "T", "U", "V", "W", "X", "Y", "Z",
     "_",
     "a", "b", "c", "d", "e", "f", "g", "h", "i", "j", "k", "l", "m",
     "n", "o", "p", "q", "r", "s", "t", "u", "v", "w", "x", "y", "z" >>

CharCode(c) == CHOOSE i \in 1..Len(Ascii) : Ascii[i] = c

UpperChars ==
  << "A", "B", "C", "D", "E", "F", "G", "H", "I", "J", "K", "L", "M",
     "N", "O", "P", "Q", "R", "S", "T", "U", "V", "W", "X", "Y", "Z" >>

LowerChars ==
  << "a", "b", "c", "d", "e", "f", "g", "h", "i", "j", "k", "l", "m",
     "n", "o", "p", "q", "r", "s", "t", "u", "v", "w", "x", "y", "z" >>

IsUpper(c) == \E i \in 1..26 : UpperChars[i] = c

IsLower(c) == \E i \in 1..26 : LowerChars[i] = c

\* str.lower() on one character.
LowerChar(c) ==
  IF IsUpper(c) THEN LowerChars[CHOOSE i \in 1..26 : UpperChars[i] = c] ELSE c

\* str.upper() on one character.
UpperChar(c) ==
  IF IsLower(c) THEN UpperChars[CHOOSE i \in 1..26 : LowerChars[i] = c] ELSE c

StrLower(s) == [i \in 1..Len(s) |-> LowerChar(s[i])]

StrUpper(s) == [i \in 1..Len(s) |-> UpperChar(s[i])]

\* s.replace(a, b) for single characters a, b.
ReplaceChar(s, a, b) == [i \in 1..Len(s) |-> IF s[i] = a THEN b ELSE s[i]]

\* s.strip(c): drop every leading and trailing c.
RECURSIVE LStrip(_, _)
LStrip(s, c) == IF s # <<>> /\ Head(s) = c THEN LStrip(Tail(s), c) ELSE s

RECURSIVE RStrip(_, _)
RStrip(s, c) ==
  IF s # <<>> /\ s[Len(s)] = c THEN RStrip(SubSeq(s, 1, Len(s) - 1), c) ELSE s

Strip(s, c) == RStrip(LStrip(s, c), c)

\* kw in s
Contains(s, kw) ==
  \E i \in 1..(Len(s) - Len(kw) + 1) : SubSeq(s, i, i + Len(kw) - 1) = kw

\* a < b for str values: code-point lexicographic order.
RECURSIVE LexLess(_, _)
LexLess(a, b) ==
  IF b = <<>> THEN FALSE
  ELSE IF a = <<>> THEN TRUE
  ELSE IF Head(a) = Head(b) THEN LexLess(Tail(a), Tail(b))
  ELSE CharCode(Head(a)) < CharCode(Head(b))

\* The characters of s joined into one TLA+ string.
RECURSIVE Joined(_)
Joined(s) == IF s = <<>> THEN "" ELSE Head(s) \o Joined(Tail(s))

Min(a, b) == IF a < b THEN a ELSE b

\* s[:n]
Slice(s, n) == SubSeq(s, 1, Min(n, Len(s)))

\* ------------------------------------------------------------------------
\* Text as runs
\* ------------------------------------------------------------------------

\* One run of a text: len characters of the given kind taken from the page
\* at the given path ("label": a subpage's "[PATH]\n" line, "text": a
\* subpage's cleaned body text, "sep": the "\n\n" between parts,
\* "homelabel": "[HOME PAGE]\n", "home": the home page's cleaned body text).
Run(kind, path, len) == [kind |-> kind, path |-> path, len |-> len]

\* len(text)
RECURSIVE TextLen(_)
TextLen(t) == IF t = <<>> THEN 0 ELSE Head(t).len + TextLen(Tail(t))

\* text[:n]
RECURSIVE TextSlice(_, _)
TextSlice(t, n) ==
  IF t = <<>> \/ n <= 0 THEN <<>>
  ELSE IF Head(t).len <= n
       THEN <<Head(t)>> \o TextSlice(Tail(t), n - Head(t).len)
       ELSE <<[Head(t) EXCEPT !.len = n]>>

\* "\n\n".join(parts)
RECURSIVE JoinParts(_)
JoinParts(parts) ==
  IF parts = <<>> THEN <<>>
  ELSE IF Len(parts) = 1 THEN Head(parts)
  ELSE Head(parts) \o <<Run("sep", <<>>, 2)>> \o JoinParts(Tail(parts))

\* ------------------------------------------------------------------------
\* URLs and subpage discovery
\* ------------------------------------------------------------------------

\* _SUBPAGE_KEYWORDS
_SUBPAGE_KEYWORDS ==
  { <<"a","b","o","u","t">>, <<"c","o","n","c","e","p","t">>,
    <<"s","t","o","r","y">>, <<"m","e","n","u">>,
    <<"c","u","i","s","i","n","e">>, <<"f","o","o","d">>,
    <<"g","r","o","u","p">>, <<"p","r","i","v","a","t","e">>,
    <<"d","i","n","i","n","g">>, <<"e","v","e","n","t">>,
    <<"p","a","r","t","y">>, <<"p","a","r","t","i","e","s">>,
    <<"r","e","s","e","r","v","e">>,
    <<"r","e","s","e","r","v","a","t","i","o","n">>, <<"c","h","e","f">> }

\* _COMMON_SUBPATHS
_COMMON_SUBPATHS ==
  { <<"/","a","b","o","u","t","/">>,
    <<"/","a","b","o","u","t","-","u","s","/">>,
    <<"/","g","r","o","u","p","-","d","i","n","i","n","g","/">>,
    <<"/","p","r","i","v","a","t","e","-","d","i","n","i","n","g","/">>,
    <<"/","p","r","i","v","a","t","e","-","e","v","e","n","t","s","/">>,
    <<"/","m","e","n","u","/">>,
    <<"/","e","v","e","n","t","s","/">>,
    <<"/","t","h","e","-","c","u","i","s","i","n","e","/">>,
    <<"/","t","h","e","-","c","o","n","c","e","p","t","/">>,
    <<"/","c","h","e","f","/">> }

\* A URL as urlparse sees it; the scheme and host are compared whole, the
\* path character by character.
Url(scheme, netloc, path) == [scheme |-> scheme, netloc |-> netloc, path |-> path]

\* The href of an <a>: host "" for a relative link, query for whatever
\* follows the path ("?..." or "#...").
Href(scheme, host, path, query) ==
  [scheme |-> scheme, host |-> host, path |-> path, query |-> query]

\* urlparse(urljoin(response.url, href)): a relative href takes the scheme
\* and host of the final URL.
JoinedUrl(final, href) ==
  IF href.host = "" THEN Url(final.scheme, final.netloc, href.path)
  ELSE Url(href.scheme, href.host, href.path)

\* The anchor loop taking every same-host anchor with a path.
AnchorCandidates_AnyPath(final, anchors) ==
  { u \in { JoinedUrl(final, anchors[i]) : i \in 1..Len(anchors) } :
      /\ u.netloc = final.netloc
      /\ Strip(StrLower(u.path), "/") # <<>> }

\* The anchor loop of scrape_website: same host, a non-empty lowercased
\* slash-trimmed path containing a keyword; the candidate is
\* scheme://netloc/path with query and fragment dropped.
AnchorCandidates(final, anchors) ==
  { u \in { JoinedUrl(final, anchors[i]) : i \in 1..Len(anchors) } :
      /\ u.netloc = final.netloc
      /\ LET path_lower == Strip(StrLower(u.path), "/")
         IN  /\ path_lower # <<>>
             /\ \E kw \in _SUBPAGE_KEYWORDS : Contains(path_lower, kw) }

\* subpage_urls after both loops: the anchors' candidates and base_url +
\* subpath for every conventional subpath.
SubpageUrls(final, anchors) ==
  AnchorCandidates(final, anchors)
    \cup { Url(final.scheme, final.netloc, p) : p \in _COMMON_SUBPATHS }

\* a < b for the candidates' URL strings "scheme://netloc/path".  The
\* candidates share the host; "http://" sorts before "https://" (":" is
\* below "s"), equal schemes are decided by the paths.
UrlLess(a, b) ==
  IF a.scheme # b.scheme THEN a.scheme = "http" /\ b.scheme = "https"
  ELSE LexLess(a.path, b.path)

\* sorted(S)
RECURSIVE Sorted(_)
Sorted(S) ==
  IF S = {} THEN <<>>
  ELSE LET m == CHOOSE x \in S : \A y \in S \ {x} : UrlLess(x, y)
       IN  <<m>> \o Sorted(S \ {m})

\* The subpage list without the slice: every candidate is requested.
SubpageQueue_NoCap(final, anchors) == Sorted(SubpageUrls(final, anchors))

\* sorted(subpage_urls)[:10]
SubpageQueue(final, anchors) == Slice(Sorted(SubpageUrls(final, anchors)), MAX_SUBPAGES)

\* path_label = urlparse(sub_url).path.strip('/').upper().replace('-', ' ')
PathLabel(path) == ReplaceChar(StrUpper(Strip(path, "/")), "-", " ")

\* f"[{path_label}]\n{page_text}"
SubpagePart(path, textLen) ==
  << Run("label", PathLabel(path), Len(PathLabel(path)) + 3),
     Run("text", path, textLen) >>

\* f"[HOME PAGE]\n{main_text}"
HomePart(textLen) == << Run("homelabel", <<>>, 12), Run("home", <<>>, textLen) >>

\* ------------------------------------------------------------------------
\* Pages
\* ------------------------------------------------------------------------

\* A string with trail trailing slashes after s (s itself ends in none).
Link(s, trail) == [s |-> s, trail |-> trail]

NoLink == Link("", 0)

\* link.rstrip('/')
RStripSlash(link) == link.s

\* What the extractors can see of one HTML document.  The regular
\* expressions' matches are the fields: "" / <<>> / NoLink when the pattern
\* does not occur.
BlankPage ==
  [ text        |-> 0,       \* length of the cleaned <main>/<article>/<body> text
    resyWidget  |-> FALSE,   \* 'widgets.resy.com' or 'resywidget' occurs
    resyCities  |-> FALSE,   \* 'resy.com/cities/' occurs
    resyLong    |-> "",      \* https?://resy.com/cities/<c>/venues/<s>, first match
    resyShort   |-> <<>>,    \* <<c, s>> of resy.com/cities/<c>/<s>, first match
    otMarker    |-> FALSE,   \* an OpenTable widget marker occurs
    otRid       |-> "",      \* digits of opentable.com...[?&]rid=<digits>
    tripleseat  |-> FALSE,   \* 'tripleseat.com' occurs
    leadFormId  |-> "",      \* digits of lead_form_id=<digits>
    mailAnchors |-> <<>>,    \* the <a href>: [kw, http, href] in document order
    mailPlatform|-> NoLink,  \* first newsletter-platform URL
    orderOnline |-> NoLink,  \* first https?://order.online/... href
    fbSlug      |-> <<>>,    \* what follows facebook.com/ in the first such href
    igSlug      |-> <<>>,    \* what follows instagram.com/ in the first such href
    fbLater     |-> <<>>,    \* the same of the later facebook.com hrefs, in order
    igLater     |-> <<>>,    \* the same of the later instagram.com hrefs, in order
    telHref     |-> <<>>,    \* what follows tel: in the first such href
    ariaPhone   |-> <<>>,    \* phone-shaped part of the first aria-label/title
    labelPhone  |-> <<>>,    \* phone-shaped part after the first PHONE:
    emails      |-> <<>>,    \* corporate addresses: [kind, addr] in document order
    mapsHref    |-> "",      \* href of the first Google Maps place <a>
    mapsText    |-> "",      \* its text, ', '-joined and stripped
    themeColor  |-> <<>>,    \* stripped content of <meta name="theme-color">
    inlineVar   |-> <<>>,    \* value of the first matching custom property, inline CSS
    inlineHex6  |-> <<>>,    \* the 6-digit hex colours of the inline CSS, in order
    inlineHex3  |-> <<>>,    \* the 3-digit hex colours of the inline CSS, in order
    sheets      |-> <<>>,    \* the <link rel="stylesheet">: [href, absolute, skip]
    imgs        |-> <<>>,    \* the <img src>: [src, explicit, hint, inHeader]
    icons       |-> <<>>,    \* the <link rel> with href: [rel, href, sizes]
    anchors     |-> <<>> ]   \* the <a href>: Href records in document order

\* The keys of the dict _detect_site_metadata returns.
MetaFields ==
  { "booking", "opentable_rid", "tripleseat_form_id", "resy_url",
    "mailing_list_url", "facebook_url", "instagram_url", "phone",
    "email_general", "email_events", "email_marketing", "email_press",
    "address", "google_maps_url", "order_online_url" }

\* The keys scrape_website adds from the home page.
BrandFields == { "primary_color", "logo_url", "favicon_url" }

AllFields == MetaFields \cup BrandFields

Digits == { "0", "1", "2", "3", "4", "5", "6", "7", "8", "9" }

\* re.sub(r'[^\d]', '', s)
OnlyDigits(s) == SelectSeq(s, LAMBDA c : c \in Digits)

\* f"({raw[:3]}) {raw[3:6]}-{raw[6:]}"
FormatPhone(raw) ==
  "(" \o Joined(SubSeq(raw, 1, 3)) \o ") " \o Joined(SubSeq(raw, 4, 6))
      \o "-" \o Joined(SubSeq(raw, 7, Len(raw)))

\* Tier 1 without the check for ten digits.
TelPhone_AnyLength(page) ==
  LET raw0 == OnlyDigits(page.telHref)
      raw  == IF Len(raw0) = 11 /\ Head(raw0) = "1" THEN Tail(raw0) ELSE raw0
  IN  IF page.telHref # <<>> THEN FormatPhone(raw) ELSE ""

\* Tier 1 of the phone block: the tel: href.
TelPhone(page) ==
  LET raw0 == OnlyDigits(page.telHref)
      raw  == IF Len(raw0) = 11 /\ Head(raw0) = "1" THEN Tail(raw0) ELSE raw0
  IN  IF page.telHref # <<>> /\ Len(raw) = 10 THEN FormatPhone(raw) ELSE ""

\* Tiers 2 and 3: a phone-shaped match is kept if it strips to 10 digits.
ShapedPhone(match) ==
  LET raw == OnlyDigits(match)
  IN  IF match # <<>> /\ Len(raw) = 10 THEN FormatPhone(raw) ELSE ""

\* The phone block with tier 1 alone.
DetectPhone_TelOnly(page) == TelPhone(page)

\* The phone block of _detect_site_metadata.
DetectPhone(page) ==
  IF TelPhone(page) # "" THEN TelPhone(page)
  ELSE IF ShapedPhone(page.ariaPhone) # "" THEN ShapedPhone(page.ariaPhone)
  ELSE ShapedPhone(page.labelPhone)

\* The handles of the corporate parent, never a restaurant's own.
FB_EXCLUDED ==
  { <<"s","t","a","r","r","r","e","s","t","a","u","r","a","n","t","s">>,
    <<"s","t","a","r","r","-","r","e","s","t","a","u","r","a","n","t","s">>,
    <<"s","t","a","r","r",".","r","e","s","t","a","u","r","a","n","t","s">> }

IG_EXCLUDED ==
  { <<"s","t","a","r","r","r","e","s","t","a","u","r","a","n","t","s">>,
    <<"s","t","a","r","r","_","r","e","s","t","a","u","r","a","n","t","s">>,
    <<"s","t","a","r","r",".","r","e","s","t","a","u","r","a","n","t","s">> }

\* The social block: the first profile href, dropped when it is corporate.
DetectSocial(slug0, excluded, prefix) ==
  LET slug == RStrip(slug0, "/")
  IN  IF slug0 # <<>> /\ StrLower(slug) \notin excluded
      THEN prefix \o Joined(slug) ELSE ""

\* The mailing-list block: the first keyword-text anchor with an http href,
\* else the first platform URL.
DetectMailingList(page) ==
  LET hits == SelectSeq(page.mailAnchors, LAMBDA a : a.kw /\ a.http)
  IN  IF hits # <<>> THEN RStripSlash(Head(hits).href)
      ELSE RStripSlash(page.mailPlatform)

\* The email loop: the first address of each kind.
DetectEmail(page, kind) ==
  LET hits == SelectSeq(page.emails, LAMBDA e : e.kind = kind)
  IN  IF hits # <<>> THEN Head(hits).addr ELSE ""

\* The Resy test looking for the widget only.
ResyMarker_WidgetOnly(page) == page.resyWidget

ResyMarker(page) == page.resyWidget \/ page.resyCities

\* The Resy branch's URL: the long form, else the short form rebuilt.
DetectResyUrl(page) ==
  IF page.resyLong # "" THEN page.resyLong
  ELSE IF page.resyShort # <<>>
       THEN "https://resy.com/cities/" \o page.resyShort[1] \o "/" \o page.resyShort[2]
       ELSE ""

\* _detect_site_metadata(html_bytes)
_detect_site_metadata(page) ==
  [ f \in MetaFields |->
      CASE f = "booking" ->
             IF ResyMarker(page) THEN "Resy"
             ELSE IF page.otMarker THEN "OpenTable" ELSE ""
        [] f = "resy_url" ->
             IF ResyMarker(page) THEN DetectResyUrl(page) ELSE ""
        [] f = "opentable_rid" ->
             IF ~ResyMarker(page) /\ page.otMarker THEN page.otRid ELSE ""
        [] f = "tripleseat_form_id" ->
             IF page.tripleseat THEN page.leadFormId ELSE ""
        [] f = "mailing_list_url" -> DetectMailingList(page)
        [] f = "order_online_url" -> RStripSlash(page.orderOnline)
        [] f = "facebook_url" ->
             DetectSocial(page.fbSlug, FB_EXCLUDED, "https://www.facebook.com/")
        [] f = "instagram_url" ->
             DetectSocial(page.igSlug, IG_EXCLUDED, "https://www.instagram.com/")
        [] f = "phone" -> DetectPhone(page)
        [] f = "email_general" -> DetectEmail(page, "info")
        [] f = "email_events" -> DetectEmail(page, "events")
        [] f = "email_marketing" -> DetectEmail(page, "marketing")
        [] f = "email_press" -> DetectEmail(page, "press")
        [] f = "google_maps_url" -> page.mapsHref
        [] f = "address" -> IF page.mapsHref # "" THEN page.mapsText ELSE "" ]

\* ------------------------------------------------------------------------
\* Brand extractors: primary colour, logo, favicon
\* ------------------------------------------------------------------------

HexDigits ==
  << "0", "1", "2", "3", "4", "5", "6", "7", "8", "9",
     "a", "b", "c", "d", "e", "f" >>

IsHexChar(c) == \E i \in 1..16 : HexDigits[i] = LowerChar(c)

\* int(c, 16) for one hex digit
HexVal(c) == (CHOOSE i \in 1..16 : HexDigits[i] = LowerChar(c)) - 1

\* re.match(r'^#[0-9a-fA-F]{3,8}$', val)
IsThemeHex(val) ==
  /\ Len(val) \in 4..9
  /\ Head(val) = "#"
  /\ \A i \in 2..Len(val) : IsHexChar(val[i])

\* Step 1: the theme-color meta, cut to val[:7].
ThemeColor(page) ==
  IF page.themeColor # <<>> /\ IsThemeHex(page.themeColor)
  THEN Joined(Slice(page.themeColor, 7)) ELSE ""

\* Step 2: the value of a matching custom property: a 3-digit value is
\* doubled per digit, the result is cut to val[:7].
VarColor(val) ==
  IF val = <<>> THEN ""
  ELSE IF Len(val) = 4
       THEN Joined(Slice(<<"#", val[2], val[2], val[3], val[3], val[4], val[4]>>, 7))
       ELSE Joined(Slice(val, 7))

\* _normalize_hex(h)
_normalize_hex(h) ==
  IF Len(h) = 3 THEN StrLower(<<h[1], h[1], h[2], h[2], h[3], h[3]>>)
  ELSE StrLower(h)

Max3(a, b, c) ==
  IF a >= b /\ a >= c THEN a ELSE IF b >= c THEN b ELSE c

Min3(a, b, c) ==
  IF a <= b /\ a <= c THEN a ELSE IF b <= c THEN b ELSE c

\* _is_neutral(h) taking a spread of exactly 30 for neutral as well.
_is_neutral_Inclusive(h) ==
  LET r == 16 * HexVal(h[1]) + HexVal(h[2])
      g == 16 * HexVal(h[3]) + HexVal(h[4])
      b == 16 * HexVal(h[5]) + HexVal(h[6])
  IN  Max3(r, g, b) - Min3(r, g, b) <= NEUTRAL_SPREAD

\* _is_neutral(h)
_is_neutral(h) ==
  LET r == 16 * HexVal(h[1]) + HexVal(h[2])
      g == 16 * HexVal(h[3]) + HexVal(h[4])
      b == 16 * HexVal(h[5]) + HexVal(h[6])
  IN  Max3(r, g, b) - Min3(r, g, b) < NEUTRAL_SPREAD

\* _extract_colors(css_text): the 6-digit matches, then the 3-digit ones,
\* normalized, neutrals dropped.
_extract_colors(hex6, hex3) ==
  LET all_c == [i \in 1..Len(hex6 \o hex3) |-> _normalize_hex((hex6 \o hex3)[i])]
  IN  SelectSeq(all_c, LAMBDA c : ~_is_neutral(c))

Count(seq, x) == Cardinality({ i \in 1..Len(seq) : seq[i] = x })

\* Counter(seq).most_common(1)[0][0]: the highest count, the first seen
\* among equals.
MostCommon(seq) ==
  LET first == CHOOSE i \in 1..Len(seq) :
                 /\ \A j \in 1..Len(seq) : Count(seq, seq[j]) <= Count(seq, seq[i])
                 /\ \A j \in 1..(i - 1) : Count(seq, seq[j]) < Count(seq, seq[i])
  IN  seq[first]

RECURSIVE Repeat(_, _)
Repeat(seq, n) == IF n = 0 THEN <<>> ELSE seq \o Repeat(seq, n - 1)

inline_colors(page) == _extract_colors(page.inlineHex6, page.inlineHex3)

\* Step 3 asking for more than three occurrences.
InlineDominant_MoreThan(page) ==
  IF inline_colors(page) # <<>>
     /\ Count(inline_colors(page), MostCommon(inline_colors(page))) > DOMINANT_COUNT
  THEN "#" \o Joined(MostCommon(inline_colors(page))) ELSE ""

\* Step 3: a colour the inline CSS alone uses often enough.
InlineDominant(page) ==
  IF inline_colors(page) # <<>>
     /\ Count(inline_colors(page), MostCommon(inline_colors(page))) >= DOMINANT_COUNT
  THEN "#" \o Joined(MostCommon(inline_colors(page))) ELSE ""

\* The steps before the stylesheets with the inline custom property asked
\* before the theme-color meta.
ColorWithoutSheets_VarFirst(page) ==
  IF VarColor(page.inlineVar) # "" THEN VarColor(page.inlineVar)
  ELSE IF ThemeColor(page) # "" THEN ThemeColor(page)
  ELSE InlineDominant(page)

\* What _extract_primary_color returns before any stylesheet is requested,
\* "" when it goes on to the stylesheets.
ColorWithoutSheets(page) ==
  IF ThemeColor(page) # "" THEN ThemeColor(page)
  ELSE IF VarColor(page.inlineVar) # "" THEN VarColor(page.inlineVar)
  ELSE InlineDominant(page)

\* urljoin(base_url, ref) for a reference that is absolute or a /path
UrlJoin(base_url, ref) == IF ref.absolute THEN ref.s ELSE base_url \o ref.s

Ref(s, absolute) == [s |-> s, absolute |-> absolute]

\* The stylesheet URLs _extract_primary_color requests, in document order:
\* none when an earlier step answered; links without href or on a skipped
\* domain are passed over.
SheetUrls(page, base_url) ==
  IF ColorWithoutSheets(page) # "" THEN <<>>
  ELSE LET kept == SelectSeq(page.sheets, LAMBDA l : l.href.s # "" /\ ~l.skip)
       IN  [i \in 1..Len(kept) |-> UrlJoin(base_url, kept[i].href)]

RECURSIVE FlatHex6(_)
FlatHex6(parts) ==
  IF parts = <<>> THEN <<>> ELSE Head(parts).hex6 \o FlatHex6(Tail(parts))

RECURSIVE FlatHex3(_)
FlatHex3(parts) ==
  IF parts = <<>> THEN <<>> ELSE Head(parts).hex3 \o FlatHex3(Tail(parts))

\* Steps 4 onwards, given the stylesheet bodies that were read: a custom
\* property of the external CSS, else the most frequent colour with the
\* inline colours counted three times.
ColorWithSheets(page, external_parts) ==
  LET vars == SelectSeq(external_parts, LAMBDA c : c.var # <<>>)
      all_colors == Repeat(inline_colors(page), INLINE_WEIGHT)
                      \o _extract_colors(FlatHex6(external_parts), FlatHex3(external_parts))
  IN  IF vars # <<>> THEN VarColor(Head(vars).var)
      ELSE IF all_colors # <<>> THEN "#" \o Joined(MostCommon(all_colors))
      ELSE ""

\* _extract_primary_color(soup, base_url), the stylesheet bodies given
_extract_primary_color(page, external_parts) ==
  IF ColorWithoutSheets(page) # "" THEN ColorWithoutSheets(page)
  ELSE ColorWithSheets(page, external_parts)

\* int(sizes.split('x')[0]): the digits before the first 'x'; -1 stands
\* for ValueError.
RECURSIVE BeforeX(_)
BeforeX(s) ==
  IF s = <<>> \/ Head(s) = "x" THEN <<>> ELSE <<Head(s)>> \o BeforeX(Tail(s))

RECURSIVE DigitsValue(_)
DigitsValue(s) ==
  IF s = <<>> THEN 0
  ELSE 10 * DigitsValue(SubSeq(s, 1, Len(s) - 1)) + HexVal(s[Len(s)])

SizesWidth(sizes) ==
  LET w == BeforeX(sizes)
  IN  IF w # <<>> /\ \A i \in 1..Len(w) : w[i] \in Digits
      THEN DigitsValue(w) ELSE -1

\* The logo lookup taking an icon only when it declares a width of at
\* least MIN_ICON_WIDTH.
_extract_logo_url_SizedOnly(page, base_url) ==
  LET explicit == SelectSeq(page.imgs, LAMBDA i : i.explicit)
      inHeader == SelectSeq(page.imgs, LAMBDA i : i.inHeader /\ i.hint)
      hinted   == SelectSeq(page.imgs, LAMBDA i : i.hint)
      icons    == SelectSeq(page.icons, LAMBDA l :
                    /\ "icon" \in l.rels
                    /\ l.sizes # <<>>
                    /\ SizesWidth(l.sizes) >= MIN_ICON_WIDTH)
  IN  IF explicit # <<>> THEN UrlJoin(base_url, Head(explicit).src)
      ELSE IF inHeader # <<>> THEN UrlJoin(base_url, Head(inHeader).src)
      ELSE IF hinted # <<>> THEN UrlJoin(base_url, Head(hinted).src)
      ELSE IF icons # <<>> THEN UrlJoin(base_url, Head(icons).href)
      ELSE ""

\* _extract_logo_url(soup, base_url)
_extract_logo_url(page, base_url) ==
  LET explicit == SelectSeq(page.imgs, LAMBDA i : i.explicit)
      inHeader == SelectSeq(page.imgs, LAMBDA i : i.inHeader /\ i.hint)
      hinted   == SelectSeq(page.imgs, LAMBDA i : i.hint)
      icons    == SelectSeq(page.icons, LAMBDA l :
                    /\ "icon" \in l.rels
                    /\ ~(l.sizes # <<>> /\ SizesWidth(l.sizes) # -1
                           /\ SizesWidth(l.sizes) < MIN_ICON_WIDTH))
  IN  IF explicit # <<>> THEN UrlJoin(base_url, Head(explicit).src)
      ELSE IF inHeader # <<>> THEN UrlJoin(base_url, Head(inHeader).src)
      ELSE IF hinted # <<>> THEN UrlJoin(base_url, Head(hinted).src)
      ELSE IF icons # <<>> THEN UrlJoin(base_url, Head(icons).href)
      ELSE ""

\* The size the favicon loop gives a link: 0 without sizes or on ValueError.
IconSize(l) ==
  IF l.sizes # <<>> /\ SizesWidth(l.sizes) # -1 THEN SizesWidth(l.sizes) ELSE 0

\* _extract_favicon_url(soup, base_url)
_extract_favicon_url(page, base_url) ==
  LET touch == SelectSeq(page.icons, LAMBDA l : "apple-touch-icon" \in l.rels)
      icons == SelectSeq(page.icons, LAMBDA l : "icon" \in l.rels)
      best  == CHOOSE i \in 1..Len(icons) :
                 /\ \A j \in 1..Len(icons) : IconSize(icons[j]) <= IconSize(icons[i])
                 /\ \A j \in 1..(i - 1) : IconSize(icons[j]) < IconSize(icons[i])
  IN  IF touch # <<>> THEN UrlJoin(base_url, Head(touch).href)
      ELSE IF icons # <<>> THEN UrlJoin(base_url, icons[best].href)
      ELSE base_url \o "/favicon.ico"

\* ------------------------------------------------------------------------
\* The sites, stylesheets and search results the model draws from
\* ------------------------------------------------------------------------

Example == "example.com"

RootPath == <<"/">>

FinalPlain == Url("https", Example, RootPath)

FinalWww == Url("https", "www.example.com", RootPath)

Coral == <<"e", "6", "4", "a", "1", "9">>

Teal == <<"0", "a", "8">>

Grey == <<"8", "0", "8", "0", "8", "0">>

MenusDinner == <<"/","m","e","n","u","s","/","d","i","n","n","e","r">>

PrivateRooms ==
  <<"/","P","r","i","v","a","t","e","-","D","i","n","i","n","g","/","r","o","o","m","s">>

OurStory == <<"/","o","u","r","-","s","t","o","r","y","/">>

Reservations == <<"/","r","e","s","e","r","v","a","t","i","o","n","s">>

AboutPath == <<"/","a","b","o","u","t","/">>

ContactPath == <<"/","c","o","n","t","a","c","t","/">>

\* The home pages a site may answer with, each with the final URL of the
\* response (after redirects).
HomeResponses ==
  << \* 1: an empty document
     [ final |-> FinalPlain, page |-> BlankPage ],
     \* 2: 37 characters of text, a theme colour, a Resy venue link, emails
     [ final |-> FinalPlain,
       page  |-> [ BlankPage EXCEPT
         !.text = 37,
         !.themeColor = <<"#", "1", "A", "2", "b", "3", "c", "f", "f">>,
         !.resyCities = TRUE,
         !.resyLong = "https://resy.com/cities/philadelphia-pa/venues/parc",
         !.resyShort = <<"philadelphia-pa", "venues">>,
         !.emails = << [kind |-> "info", addr |-> "parc.info@starr-restaurants.com"],
                       [kind |-> "info", addr |-> "second.info@starr-restaurants.com"],
                       [kind |-> "press", addr |-> "parc.press@starr-restaurants.com"] >>,
         !.icons = << [rels |-> {"icon"}, href |-> Ref("/fav-32.png", FALSE),
                       sizes |-> <<"3","2","x","3","2">>],
                      [rels |-> {"icon"}, href |-> Ref("/fav-192.png", FALSE),
                       sizes |-> <<"1","9","2","x","1","9","2">>] >> ] ],
     \* 3: 38 characters, an OpenTable widget without rid, corporate
     \*    Facebook link, own Instagram link, inline CSS with a dominant colour
     [ final |-> FinalPlain,
       page  |-> [ BlankPage EXCEPT
         !.text = 38,
         !.otMarker = TRUE,
         !.fbSlug = <<"S","t","a","r","r","R","e","s","t","a","u","r","a","n","t","s","/">>,
         !.igSlug = <<"p","a","r","c","/">>,
         !.inlineHex6 = <<Coral, Grey, Coral, Grey, Grey, Grey>>,
         !.inlineHex3 = <<Teal, Teal, <<"E","6","4">> >>,
         !.sheets = << [href |-> Ref("/theme.css", FALSE), skip |-> FALSE] >>,
         !.imgs = << [src |-> Ref("/img/hero.jpg", FALSE), explicit |-> FALSE,
                      hint |-> FALSE, inHeader |-> TRUE],
                     [src |-> Ref("/img/logo.svg", FALSE), explicit |-> FALSE,
                      hint |-> TRUE, inHeader |-> FALSE] >>,
         !.icons = << [rels |-> {"apple-touch-icon"}, href |-> Ref("/touch.png", FALSE),
                       sizes |-> <<>>] >> ] ],
     \* 4: 39 characters, a Resy widget without venue link, more candidate
     \*    anchors than the cap, two stylesheets (one on a skipped domain)
     [ final |-> FinalPlain,
       page  |-> [ BlankPage EXCEPT
         !.text = 39,
         !.resyWidget = TRUE,
         !.inlineHex6 = <<Coral>>,
         !.sheets = << [href |-> Ref("https://fonts.googleapis.com/css", TRUE), skip |-> TRUE],
                       [href |-> Ref("", FALSE), skip |-> FALSE],
                       [href |-> Ref("/a.css", FALSE), skip |-> FALSE],
                       [href |-> Ref("https://static.example.net/b.css", TRUE), skip |-> FALSE] >>,
         !.anchors = << Href("", "", MenusDinner, ""),
                        Href("", "", PrivateRooms, ""),
                        Href("", "", ContactPath, ""),
                        Href("https", "other.com", AboutPath, ""),
                        Href("", "", AboutPath, "?ref=nav#team"),
                        Href("", "", RootPath, "#menu"),
                        Href("http", Example, Reservations, "") >>,
         !.icons = << [rels |-> {"shortcut", "icon"}, href |-> Ref("/favicon-any.svg", FALSE),
                       sizes |-> <<"a","n","y">>] >> ] ],
     \* 5: 3000 characters behind a redirect to the www host, no booking
     \*    markers, a tel: link, a mailing-list anchor
     [ final |-> FinalWww,
       page  |-> [ BlankPage EXCEPT
         !.text = 3000,
         !.telHref = <<"+","1","-","2","1","5","-","5","5","5","-","0","1","0","0">>,
         !.mailAnchors = << [kw |-> TRUE, http |-> FALSE, href |-> Link("/subscribe", 1)],
                            [kw |-> TRUE, http |-> TRUE,
                             href |-> Link("https://starr.e2ma.net/signup", 1)] >>,
         !.inlineVar = <<"#", "0", "a", "8">>,
         !.anchors = << Href("", "", OurStory, ""),
                        Href("https", Example, MenusDinner, "") >>,
         !.imgs = << [src |-> Ref("https://cdn.example.net/site-logo.png", TRUE),
                      explicit |-> TRUE, hint |-> TRUE, inHeader |-> FALSE] >> ] ] >>

\* The documents a subpage GET may answer with.
SubPages ==
  << \* 1: 7000 characters, a Resy venue link in the short form, an info
     \*    address, an aria-label phone
     [ BlankPage EXCEPT
         !.text = 7000,
         !.resyCities = TRUE,
         !.resyShort = <<"philadelphia-pa", "parc">>,
         !.emails = << [kind |-> "info", addr |-> "sub.info@starr-restaurants.com"],
                       [kind |-> "events", addr |-> "sub.events@starr-restaurants.com"] >>,
         !.ariaPhone = <<"(","2","1","5",")"," ","5","5","5","-","0","1","9","9">> ],
     \* 2: 31 characters, an OpenTable widget with rid, a Tripleseat form,
     \*    a theme colour, a custom-logo <img> and an apple-touch-icon
     [ BlankPage EXCEPT
         !.text = 31,
         !.otMarker = TRUE,
         !.otRid = "4242",
         !.tripleseat = TRUE,
         !.leadFormId = "777",
         !.fbSlug = <<"p","a","r","c","p","h","l">>,
         !.themeColor = <<"#", "c", "0", "f", "f", "e", "e">>,
         !.imgs = << [src |-> Ref("/img/events-logo.png", FALSE), explicit |-> TRUE,
                      hint |-> TRUE, inHeader |-> TRUE] >>,
         !.icons = << [rels |-> {"apple-touch-icon"}, href |-> Ref("/events-touch.png", FALSE),
                       sizes |-> <<>>] >> ],
     \* 3: 30 characters, both widgets' markers, a map link, an info address
     [ BlankPage EXCEPT
         !.text = 30,
         !.resyWidget = TRUE,
         !.otMarker = TRUE,
         !.otRid = "9999",
         !.emails = << [kind |-> "info", addr |-> "thin.info@starr-restaurants.com"] >>,
         !.mapsHref = "https://www.google.com/maps/place/Parc",
         !.mapsText = "227 S 18th St, Philadelphia, PA 19103",
         !.orderOnline = Link("https://order.online/store/parc", 1) ] >>

\* The bodies a stylesheet GET may answer with: var, hex6 and hex3 as for
\* the inline CSS.
SheetBodies ==
  << [ var |-> <<>>, hex6 |-> <<Grey, <<"1","2","3","4","5","6">>, Grey>>,
       hex3 |-> <<Teal, Teal>> ],
     [ var |-> <<"#", "F", "F", "8", "8", "0", "0", "c", "c">>, hex6 |-> <<Coral>>,
       hex3 |-> <<>> ] >>

\* What a requests.get may raise: the exception classes the instance
\* belongs to, and the status of an HTTPError's response.
Exceptions ==
  { [name |-> "ReadTimeout", classes |-> {"Timeout"}, status |-> 0],
    [name |-> "ConnectTimeout", classes |-> {"Timeout", "ConnectionError"}, status |-> 0],
    [name |-> "ConnectionError", classes |-> {"ConnectionError"}, status |-> 0],
    [name |-> "HTTPError", classes |-> {"HTTPError"}, status |-> 404],
    [name |-> "HTTPError", classes |-> {"HTTPError"}, status |-> 503],
    [name |-> "TooManyRedirects", classes |-> {}, status |-> 0] }

\* What the user may type into the Add form's URL box.
TypedUrls ==
  { Url("", Example, <<>>), Url("https", Example, <<>>) }

NoUrl == Url("", "", <<>>)

\* ------------------------------------------------------------------------
\* scrape_website
\* ------------------------------------------------------------------------

\* if not url.startswith(('http://', 'https://')): url = 'https://' + url
NormalizeUrl(u) == IF u.scheme = "" THEN [u EXCEPT !.scheme = "https"] ELSE u

\* base_url = f"{parsed_base.scheme}://{parsed_base.netloc}"
BaseUrl(final) == final.scheme \o "://" \o final.netloc

\* The except chain with the ConnectionError clause written above the
\* Timeout clause.
HomeErrorMessage_ConnectionFirst(exc) ==
  IF "ConnectionError" \in exc.classes
  THEN << "Could not connect to website. Please check the URL." >>
  ELSE IF "Timeout" \in exc.classes
  THEN << "Website took too long to respond. Please try again." >>
  ELSE IF "HTTPError" \in exc.classes
  THEN << "Website returned error ", ToString(exc.status), ". Please verify the URL." >>
  ELSE << "Could not fetch website. Please check the URL and try again." >>

\* The except chain of the home-page fetch: the first clause the raised
\* exception is an instance of decides the message.  A message is the
\* sequence of its literal and formatted pieces; "" is <<>>.
HomeErrorMessage(exc) ==
  IF "Timeout" \in exc.classes
  THEN << "Website took too long to respond. Please try again." >>
  ELSE IF "ConnectionError" \in exc.classes
  THEN << "Could not connect to website. Please check the URL." >>
  ELSE IF "HTTPError" \in exc.classes
  THEN << "Website returned error ", ToString(exc.status), ". Please verify the URL." >>
  ELSE << "Could not fetch website. Please check the URL and try again." >>

LittleTextMessage ==
  << "Website had very little text content. Try a different page or enter copy manually." >>

\* empty = {}
EmptyDict == [f \in {} |-> ""]

\* A return value of scrape_website.
Result(ok, text, error, det) ==
  [ok |-> ok, text |-> text, error |-> error, detected |-> det]

NoResult == Result(FALSE, <<>>, <<>>, EmptyDict)

\* d.get(key): "" stands for the None of a missing key (both are falsy).
Get(d, key) == IF key \in DOMAIN d THEN d[key] ELSE ""

\* detected after the four extractors ran on the home page.
HomeDetected(page, final, external_parts) ==
  [ f \in AllFields |->
      CASE f = "primary_color" -> _extract_primary_color(page, external_parts)
        [] f = "logo_url" -> _extract_logo_url(page, BaseUrl(final))
        [] f = "favicon_url" -> _extract_favicon_url(page, BaseUrl(final))
        [] OTHER -> _detect_site_metadata(page)[f] ]

\* The loop with the "not detected.get(key)" test dropped: a later page's
\* value replaces an earlier one.
MergeMeta_LastWins(det, sub_meta) ==
  [ f \in DOMAIN det \cup DOMAIN sub_meta |->
      IF f \in DOMAIN sub_meta /\ sub_meta[f] # "" THEN sub_meta[f] ELSE det[f] ]

\* The loop left out: subpages add nothing to detected.
MergeMeta_HomeOnly(det, sub_meta) == det

\* The gap-fill loop rebuilding detected from the subpage's keys: what
\* sub_meta has no key for is lost.
MergeMeta_SubKeysOnly(det, sub_meta) ==
  [ f \in DOMAIN det \cup DOMAIN sub_meta |->
      IF f \notin DOMAIN sub_meta THEN ""
      ELSE IF sub_meta[f] # "" /\ Get(det, f) = "" THEN sub_meta[f] ELSE det[f] ]

\* The gap-fill loop over one subpage's metadata:
\*   if val and not detected.get(key): detected[key] = val
MergeMeta(det, sub_meta) ==
  [ f \in DOMAIN det \cup DOMAIN sub_meta |->
      IF f \in DOMAIN sub_meta /\ sub_meta[f] # "" /\ Get(det, f) = ""
      THEN sub_meta[f] ELSE det[f] ]

\* The length test left out: every subpage with any text gives a part.
KeepsText_AnyText(textLen) == textLen > 0

\* A subpage's part is kept when its text is longer than 30 characters.
KeepsText(textLen) == textLen > MIN_SUBPAGE_TEXT

\* all_text_parts with the home part put first.
AllTextParts_HomeFirst(parts, mainLen) ==
  IF mainLen > 0 THEN << HomePart(mainLen) >> \o parts ELSE parts

\* all_text_parts: the subpage parts, then the home part when main_text is
\* not empty.
AllTextParts(parts, mainLen) ==
  IF mainLen > 0 THEN Append(parts, HomePart(mainLen)) ELSE parts

CombinedText(parts, mainLen) == JoinParts(AllTextParts(parts, mainLen))

\* The tail with every part cut to the limit before the join instead of
\* one cut after it.
ScrapeReturn_CutPerPart(parts, mainLen, det) ==
  IF TextLen(CombinedText(parts, mainLen)) < MIN_COMBINED
  THEN Result(FALSE, <<>>, LittleTextMessage, EmptyDict)
  ELSE Result(TRUE,
              JoinParts([ i \in 1..Len(AllTextParts(parts, mainLen)) |->
                            TextSlice(AllTextParts(parts, mainLen)[i], TEXT_LIMIT) ]),
              <<>>, det)

\* The tail with "<=" for "<" in the length check.
ScrapeReturn_Inclusive(parts, mainLen, det) ==
  IF TextLen(CombinedText(parts, mainLen)) <= MIN_COMBINED
  THEN Result(FALSE, <<>>, LittleTextMessage, EmptyDict)
  ELSE Result(TRUE, TextSlice(CombinedText(parts, mainLen), TEXT_LIMIT), <<>>, det)

\* The tail of scrape_website handing the extractors' values out with the
\* failure as well.
ScrapeReturn_KeepDetected(parts, mainLen, det) ==
  IF TextLen(CombinedText(parts, mainLen)) < MIN_COMBINED
  THEN Result(FALSE, <<>>, LittleTextMessage, det)
  ELSE Result(TRUE, TextSlice(CombinedText(parts, mainLen), TEXT_LIMIT), <<>>, det)

\* The tail of scrape_website: the length check and the cut.
ScrapeReturn(parts, mainLen, det) ==
  IF TextLen(CombinedText(parts, mainLen)) < MIN_COMBINED
  THEN Result(FALSE, <<>>, LittleTextMessage, EmptyDict)
  ELSE Result(TRUE, TextSlice(CombinedText(parts, mainLen), TEXT_LIMIT), <<>>, det)

\* ------------------------------------------------------------------------
\* Responses
\* ------------------------------------------------------------------------

NoExc == [name |-> "", classes |-> {}, status |-> 0]

\* What a GET comes back with: an exception raised by requests.get or by
\* raise_for_status, or a response carrying document number doc of the
\* library it is drawn from (0: a response without content).
Raised(exc) == [raised |-> TRUE, exc |-> exc, doc |-> 0]

Answered(doc) == [raised |-> FALSE, exc |-> NoExc, doc |-> doc]

HomeAnswers ==
  { Raised(e) : e \in Exceptions } \cup { Answered(i) : i \in 1..Len(HomeResponses) }

\* The documents the site may serve at a subpage URL.
Serves(u) ==
  IF u.path = AboutPath THEN {1, 2, 3}
  ELSE IF u.path = <<"/","a","b","o","u","t","-","u","s","/">> THEN {3}
  ELSE IF u.path = <<"/","m","e","n","u","/">> THEN {1, 2}
  ELSE IF u.path = <<"/","e","v","e","n","t","s","/">> THEN {2}
  ELSE IF u.path = Reservations THEN {2}
  ELSE IF u.path = OurStory THEN {3}
  ELSE IF u.path = PrivateRooms THEN {1}
  ELSE {}

SubAnswers(u) ==
  { Raised(e) : e \in Exceptions } \cup { Answered(i) : i \in {0} \cup Serves(u) }

\* A stylesheet GET: an exception, a response that is not ok, or a body.
SheetAnswers ==
  { Raised(e) : e \in Exceptions } \cup { Answered(i) : i \in 0..Len(SheetBodies) }


\* _fetch_page_text(url, headers), the GET's answer given: the length of
\* the cleaned text and the document that came back (0: b"").
_fetch_page_text(answer) ==
  IF answer.raised \/ answer.doc = 0 THEN [text |-> 0, raw |-> 0]
  ELSE [text |-> SubPages[answer.doc].text, raw |-> answer.doc]

\* ------------------------------------------------------------------------
\* The fallback searchers
\* ------------------------------------------------------------------------

\* What a search GET comes back with: an exception, or a status and the
\* first match of the searcher's pattern in the body (<<>>: none).
SearchAnswer(raised, status, match) ==
  [raised |-> raised, status |-> status, match |-> match]

OpenTableAnswers ==
  { SearchAnswer(TRUE, 0, <<>>), SearchAnswer(FALSE, 403, <<"5150">>),
    SearchAnswer(FALSE, 200, <<>>), SearchAnswer(FALSE, 200, <<"5150">>) }

ResyAnswers ==
  { SearchAnswer(TRUE, 0, <<>>), SearchAnswer(FALSE, 429, <<"philadelphia-pa", "parc">>),
    SearchAnswer(FALSE, 200, <<>>), SearchAnswer(FALSE, 200, <<"philadelphia-pa", "parc">>),
    SearchAnswer(FALSE, 200, <<"new-york-ny", "new">>) }

\* _search_opentable_rid reading the body whatever the status.
_search_opentable_rid_AnyStatus(answer) ==
  IF answer.raised THEN ""
  ELSE IF answer.match # <<>> THEN answer.match[1] ELSE ""

\* _search_opentable_rid(restaurant_display_name), the GET's answer given
_search_opentable_rid(answer) ==
  IF answer.raised THEN ""
  ELSE IF answer.status # 200 THEN ""
  ELSE IF answer.match # <<>> THEN answer.match[1] ELSE ""

\* _search_resy_url(restaurant_display_name), the GET's answer given
_search_resy_url(answer) ==
  IF answer.raised THEN ""
  ELSE IF answer.status # 200 THEN ""
  ELSE IF answer.match # <<>> /\ answer.match[2] \notin {"", "new", "trending", "best"}
       THEN "https://resy.com/cities/" \o answer.match[1] \o "/" \o answer.match[2]
       ELSE ""

\* One call of a searcher: the function, the answer its GET came back
\* with, and the value it returned.
SearcherCall(fn, answer, value) == [fn |-> fn, answer |-> answer, value |-> value]

NoCall == SearcherCall("", SearchAnswer(FALSE, 0, <<>>), "")

\* ------------------------------------------------------------------------
\* The restaurant record and the handlers' steps
\* ------------------------------------------------------------------------

\* The detected fields the handlers keep, in session state and in the
\* restaurants row.
StoredFields == AllFields \ {"logo_url", "favicon_url"}

NoFields == [f \in StoredFields |-> ""]

\* INSERT OR REPLACE: the row is written anew whether or not the name
\* exists.
add_restaurant_Replace(row, website_url) ==
  [exists |-> TRUE, url |-> website_url, fields |-> NoFields]

\* db.add_restaurant(name, display_name, website_url): INSERT OR IGNORE
add_restaurant(row, website_url) ==
  IF row.exists THEN row
  ELSE [exists |-> TRUE, url |-> website_url, fields |-> NoFields]

\* db.update_restaurant_<field>(name, value): UPDATE ... WHERE name = ?
update_restaurant(row, f, value) ==
  IF row.exists THEN [row EXCEPT !.fields[f] = value] ELSE row

\* d[key] = value
Put(d, key, value) ==
  [ f \in DOMAIN d \cup {key} |-> IF f = key THEN value ELSE d[f] ]

\* One request of the log: url for a page GET, ref for a GET of a URL the
\* code holds as a string.
PageRequest(kind, u, timeout) ==
  [kind |-> kind, url |-> u, ref |-> "", timeout |-> timeout]

RefRequest(kind, ref, timeout) ==
  [kind |-> kind, url |-> NoUrl, ref |-> ref, timeout |-> timeout]

AcceptStep(f) == [op |-> "accept", field |-> f]

SearchOpenTable == [op |-> "search", field |-> "opentable_rid"]

SearchResy == [op |-> "search", field |-> "resy_url"]

\* The Add handler after scrape_website returned, statement by statement.
AddSteps ==
  << AcceptStep("primary_color"), AcceptStep("booking"),
     SearchOpenTable, AcceptStep("opentable_rid"),
     AcceptStep("tripleseat_form_id"),
     SearchResy, AcceptStep("resy_url"),
     AcceptStep("mailing_list_url"),
     AcceptStep("facebook_url"), AcceptStep("instagram_url"),
     AcceptStep("phone"), AcceptStep("email_general"),
     AcceptStep("email_events"), AcceptStep("email_marketing"),
     AcceptStep("email_press"), AcceptStep("address"),
     AcceptStep("google_maps_url"), AcceptStep("order_online_url") >>

\* _autofill of the Generate handler and _detect_fields of the Detect
\* handler list the same fields in the same order.
FieldList ==
  << AcceptStep("primary_color"), AcceptStep("booking"),
     AcceptStep("tripleseat_form_id"), AcceptStep("resy_url"),
     AcceptStep("mailing_list_url"),
     AcceptStep("facebook_url"), AcceptStep("instagram_url"),
     AcceptStep("phone"), AcceptStep("email_general"),
     AcceptStep("email_events"), AcceptStep("email_marketing"),
     AcceptStep("email_press"), AcceptStep("address"),
     AcceptStep("google_maps_url"), AcceptStep("order_online_url") >>

\* The Generate and the Detect handler after a successful scrape.
FillSteps ==
  FieldList \o << SearchOpenTable, AcceptStep("opentable_rid"),
                  SearchResy, AcceptStep("resy_url") >>

\* The searches called without looking at what the site gave.
SearchWanted_Always(step, d) == TRUE

\* Whether the fallback search of a search step is called.
SearchWanted(step, d) ==
  IF step.field = "opentable_rid"
  THEN Get(d, "booking") = "OpenTable" /\ Get(d, "opentable_rid") = ""
  ELSE Get(d, "resy_url") = ""

\* What the searchers can return.
OpenTableResults == { _search_opentable_rid(a) : a \in OpenTableAnswers }

ResyResults == { _search_resy_url(a) : a \in ResyAnswers }

\* One statement of a handler on st = [d, session, db, events, requests];
\* found_rid and found_resy are what the searchers return if called.
DoStep(flowName, step, st, found_rid, found_resy) ==
  IF step.op = "search"
  THEN IF SearchWanted(step, st.d)
       THEN [ st EXCEPT
                !.d = Put(st.d, step.field,
                          IF step.field = "opentable_rid"
                          THEN found_rid ELSE found_resy),
                !.events = Append(@, step),
                !.requests = Append(@, RefRequest("search", step.field, SEARCH_TIMEOUT)) ]
       ELSE st
  ELSE LET f == step.field
           v == Get(st.d, f)
       IN  IF v = "" THEN st
           ELSE IF flowName = "Add"
           THEN [ st EXCEPT !.session.fields[f] = v,
                            !.db = update_restaurant(st.db, f, v),
                            !.events = Append(@, step) ]
           ELSE IF flowName = "Generate"
           THEN IF st.session.fields[f] # "" THEN st
                ELSE [ st EXCEPT !.session.fields[f] = v,
                                 !.db = update_restaurant(st.db, f, v),
                                 !.events = Append(@, step) ]
           ELSE [ st EXCEPT !.session.fields[f] = v,
                            !.events = Append(@, step) ]

RECURSIVE RunSteps(_, _, _, _, _)
RunSteps(flowName, steps, st, found_rid, found_resy) ==
  IF steps = <<>> THEN st
  ELSE RunSteps(flowName, Tail(steps),
                DoStep(flowName, Head(steps), st, found_rid, found_resy),
                found_rid, found_resy)

\* ------------------------------------------------------------------------
\* State
\* ------------------------------------------------------------------------

VARIABLES
  pc,             \* where the running handler is: idle, home, css, sub, returned, done
  flow,           \* the handler that runs: "", Add, Generate, Detect
  session,        \* st.session_state of the restaurant: [url, fields]
  db,             \* the restaurants row: [exists, url, fields]
  images,         \* the field names of the restaurant's images rows
  url,            \* the argument of the scrape_website call
  requests,       \* every HTTP GET issued since the click, in order
  home,           \* the home page's number in HomeResponses (0: none yet)
  homeExc,        \* the exception the home-page GET raised (NoExc: none)
  sheetQueue,     \* the stylesheet URLs still to request
  external_parts, \* the stylesheet bodies read so far
  detected,       \* scrape_website's detected dict
  queue,          \* the subpage URLs still to request
  subpage_parts,  \* scrape_website's subpage_parts
  outcomes,       \* per subpage requested, the document that came back (0: none)
  result,         \* what scrape_website returned
  events,         \* the searches and stores the handler made, in order
  prompt,         \* the website text generate_copy put into its prompt
  soup,           \* the parsed document the extractors read
  call,           \* the last searcher call: [fn, answer, value]
  cache,          \* st.cache_data's entries for scrape_website, by URL argument
  now,            \* the clock, in seconds
  calls,          \* the scrape_website calls made so far, in order
  tables          \* the database: the rows of restaurants, images, copy_sections

\* The database with no row in any table.
NoTables == [restaurants |-> {}, images |-> {}, copy_sections |-> {}, foreign_keys |-> TRUE]

vars ==
  << pc, flow, session, db, images, url, requests, home, homeExc, sheetQueue,
     external_parts, detected, queue, subpage_parts, outcomes, result, events,
     prompt, soup, call, cache, now, calls, tables >>

scrapeVars ==
  << home, homeExc, sheetQueue, external_parts, detected, queue, subpage_parts, outcomes,
     result >>

cacheVars == << cache, now, calls >>

StoredUrl == Url("https", Example, <<>>)

\* ------------------------------------------------------------------------
\* st.cache_data(ttl=300) around scrape_website
\* ------------------------------------------------------------------------

NoEntry == [stored |-> FALSE, at |-> 0, value |-> NoResult]

\* The cache before any call: no entry under any URL argument.
EmptyCache == [ key \in TypedUrls |-> NoEntry ]

\* Whether a call at time t finds an entry under key: one was stored and
\* is younger than the TTL.
CacheLive(c, key, t) == c[key].stored /\ t - c[key].at < TTL

\* The entry written when the function returned value at time t.
CacheStore(c, key, value, t) ==
  [ c EXCEPT ![key] = [stored |-> TRUE, at |-> t, value |-> value] ]

\* The cache handing out the stored dict itself: what a caller writes into
\* it is what later calls get.
CacheAfterWrite_Shared(c, key, d) ==
  IF c[key].stored THEN [ c EXCEPT ![key].value.detected = d ] ELSE c

\* The cache after a caller wrote into the detected dict it was handed:
\* every call hands out a copy of its own, so the entry is as it was.
CacheAfterWrite(c, key, d) == c

\* One call of the log: the argument, the time, whether the cache
\* answered, the number of GETs the call issued, and what it returned.
CallRecord(key, t, hit, gets, value) ==
  [url |-> key, at |-> t, hit |-> hit, gets |-> gets, value |-> value]

\* The restaurant before the click: not added yet, or added earlier with
\* a URL and a Resy link entered by hand.
InitialRecords ==
  { [ session |-> [url |-> NoUrl, fields |-> NoFields],
      db      |-> [exists |-> FALSE, url |-> NoUrl, fields |-> NoFields] ],
    [ session |-> [url |-> StoredUrl,
                   fields |-> [NoFields EXCEPT !["resy_url"] = "https://resy.com/cities/philadelphia-pa/venues/old"]],
      db      |-> [exists |-> TRUE, url |-> StoredUrl,
                   fields |-> [NoFields EXCEPT !["resy_url"] = "https://resy.com/cities/philadelphia-pa/venues/old"]] ] }

Init ==
  /\ pc = "idle"
  /\ flow = ""
  /\ \E r \in InitialRecords : session = r.session /\ db = r.db
  /\ images = {}
  /\ url = NoUrl
  /\ requests = <<>>
  /\ home = 0
  /\ homeExc = NoExc
  /\ sheetQueue = <<>>
  /\ external_parts = <<>>
  /\ detected = EmptyDict
  /\ queue = <<>>
  /\ subpage_parts = <<>>
  /\ outcomes = <<>>
  /\ result = NoResult
  /\ events = <<>>
  /\ prompt = <<>>
  /\ soup = BlankPage
  /\ call = NoCall
  /\ cache = EmptyCache
  /\ now = 0
  /\ calls = <<>>
  /\ tables = NoTables

\* ------------------------------------------------------------------------
\* The handlers up to their scrape_website call
\* ------------------------------------------------------------------------

\* The Add button: the typed URL is kept in session state, the row is
\* inserted if new, and with a URL the site is scraped.
AddClicked ==
  /\ pc = "idle"
  /\ \E typed \in TypedUrls \cup {NoUrl} :
       /\ session' = IF typed # NoUrl THEN [session EXCEPT !.url = typed] ELSE session
       /\ db' = add_restaurant(db, typed)
       /\ url' = typed
       /\ pc' = IF typed # NoUrl THEN "home" ELSE "done"
  /\ flow' = "Add"
  /\ UNCHANGED << tables, images, requests, scrapeVars, events, prompt, soup, call, cacheVars >>

\* The Generate Copy button, enabled with a stored URL.
GenerateClicked ==
  /\ pc = "idle"
  /\ session.url # NoUrl
  /\ flow' = "Generate"
  /\ url' = session.url
  /\ pc' = "home"
  /\ UNCHANGED << tables, session, db, images, requests, scrapeVars, events, prompt, soup,
                  call, cacheVars >>

\* The Detect button, enabled with a stored URL.
DetectClicked ==
  /\ pc = "idle"
  /\ session.url # NoUrl
  /\ flow' = "Detect"
  /\ url' = session.url
  /\ pc' = "home"
  /\ UNCHANGED << tables, session, db, images, requests, scrapeVars, events, prompt, soup,
                  call, cacheVars >>

\* ------------------------------------------------------------------------
\* scrape_website, one action per GET
\* ------------------------------------------------------------------------

\* The loop left at the first subpage that brought nothing back.
LastSubpage_AbortOnFailure(rest, fetched) == rest = <<>> \/ fetched.raw = 0

\* Whether the subpage loop ends after this page: the for statement runs to
\* the end of the list whatever the fetch gave.
LastSubpage(rest, fetched) == rest = <<>>

LiveCount(seq) == Cardinality({ i \in 1..Len(seq) : seq[i] # 0 })

\* The rest of the home page's processing once the stylesheets are read:
\* the brand extractors' results join detected and the subpage queue is
\* built.
FinishHome(h, parts) ==
  /\ detected' = HomeDetected(HomeResponses[h].page, HomeResponses[h].final, parts)
  /\ queue' = SubpageQueue(HomeResponses[h].final, HomeResponses[h].page.anchors)
  /\ pc' = "sub"

\* The home-page GET and what follows it up to the next GET.
FetchHome ==
  /\ pc = "home"
  /\ requests' = Append(requests, PageRequest("home", NormalizeUrl(url), HOME_TIMEOUT))
  /\ \E answer \in HomeAnswers :
       IF answer.raised
       THEN /\ result' = Result(FALSE, <<>>, HomeErrorMessage(answer.exc), EmptyDict)
            /\ homeExc' = answer.exc
            /\ pc' = "returned"
            /\ cache' = CacheStore(cache, url, result', now)
            /\ calls' = Append(calls, CallRecord(url, now, FALSE, 1, result'))
            /\ UNCHANGED << home, sheetQueue, external_parts, detected, queue, soup >>
       ELSE LET sheets == SheetUrls(HomeResponses[answer.doc].page,
                                    BaseUrl(HomeResponses[answer.doc].final))
            IN  /\ home' = answer.doc
                /\ soup' = HomeResponses[answer.doc].page
                /\ UNCHANGED << cache, calls >>
                /\ homeExc' = homeExc
                /\ sheetQueue' = sheets
                /\ external_parts' = <<>>
                /\ result' = result
                /\ IF sheets = <<>>
                   THEN FinishHome(answer.doc, <<>>)
                   ELSE /\ pc' = "css"
                        /\ detected' = _detect_site_metadata(HomeResponses[answer.doc].page)
                        /\ UNCHANGED queue
  /\ UNCHANGED << tables, flow, session, db, images, url, subpage_parts, outcomes, events,
                  prompt, now, call >>

\* One external stylesheet GET inside _extract_primary_color.
FetchStylesheet ==
  /\ pc = "css"
  /\ requests' = Append(requests, RefRequest("stylesheet", Head(sheetQueue), SHEET_TIMEOUT))
  /\ sheetQueue' = Tail(sheetQueue)
  /\ \E answer \in SheetAnswers :
       LET parts == IF answer.raised \/ answer.doc = 0 THEN external_parts
                    ELSE Append(external_parts, SheetBodies[answer.doc])
       IN  /\ external_parts' = parts
           /\ IF Tail(sheetQueue) = <<>>
              THEN FinishHome(home, parts)
              ELSE UNCHANGED << pc, detected, queue >>
  /\ UNCHANGED << tables, flow, session, db, images, url, home, homeExc, subpage_parts,
                  outcomes, result, events, prompt, soup, call, cacheVars >>

\* One subpage GET of the loop over sorted(subpage_urls)[:10]; after the
\* last one the text is assembled and scrape_website returns.
FetchSubpage ==
  /\ pc = "sub"
  /\ requests' = Append(requests, PageRequest("subpage", Head(queue), SUB_TIMEOUT))
  /\ queue' = Tail(queue)
  /\ \E answer \in SubAnswers(Head(queue)) :
       /\ (~answer.raised /\ answer.doc # 0) => LiveCount(outcomes) < MaxLivePages
       /\ LET fetched == _fetch_page_text(answer)
              det == IF fetched.raw # 0
                     THEN MergeMeta(detected, _detect_site_metadata(SubPages[fetched.raw]))
                     ELSE detected
              parts == IF fetched.text > 0 /\ KeepsText(fetched.text)
                       THEN Append(subpage_parts, SubpagePart(Head(queue).path, fetched.text))
                       ELSE subpage_parts
          IN  /\ detected' = det
              /\ subpage_parts' = parts
              /\ outcomes' = Append(outcomes, fetched.raw)
              /\ IF LastSubpage(Tail(queue), fetched)
                 THEN /\ result' = ScrapeReturn(parts, HomeResponses[home].page.text, det)
                      /\ pc' = "returned"
                      /\ cache' = CacheStore(cache, url, result', now)
                      /\ calls' = Append(calls, CallRecord(url, now, FALSE,
                                                          Len(requests'), result'))
                 ELSE UNCHANGED << result, pc, cache, calls >>
  /\ UNCHANGED << tables, flow, session, db, images, url, home, homeExc, sheetQueue,
                  external_parts, events, prompt, soup, now, call >>

\* ------------------------------------------------------------------------
\* The handlers after scrape_website returned
\* ------------------------------------------------------------------------

\* The logo and favicon downloads of the Add and the Detect handler: one
\* GET per URL found, the image saved when the GET answers 200 with content.
ImageRequests(ok, d) ==
  (IF ok /\ Get(d, "logo_url") # ""
   THEN << RefRequest("logo", Get(d, "logo_url"), IMAGE_TIMEOUT) >> ELSE <<>>)
  \o
  (IF ok /\ Get(d, "favicon_url") # ""
   THEN << RefRequest("favicon", Get(d, "favicon_url"), IMAGE_TIMEOUT) >> ELSE <<>>)

ImagesSaved(ok, d, logoOk, faviconOk) ==
  (IF ok /\ Get(d, "logo_url") # "" /\ logoOk THEN {"Logo"} ELSE {})
  \cup
  (IF ok /\ Get(d, "favicon_url") # "" /\ faviconOk THEN {"Favicon"} ELSE {})

\* The handler's statements after the scrape, run on the returned dict.
Handled(flowName, steps, found_rid, found_resy) ==
  LET st0 == [ d |-> result.detected, session |-> session, db |-> db,
               events |-> events, requests |-> requests ]
  IN  IF result.ok THEN RunSteps(flowName, steps, st0, found_rid, found_resy) ELSE st0

AddAccept ==
  /\ pc = "returned"
  /\ flow = "Add"
  /\ \E found_rid \in OpenTableResults, found_resy \in ResyResults :
       LET st == Handled("Add", AddSteps, found_rid, found_resy)
       IN  /\ session' = st.session
           /\ db' = st.db
           /\ events' = st.events
           /\ requests' = st.requests \o ImageRequests(result.ok, st.d)
           /\ cache' = CacheAfterWrite(cache, url, st.d)
           /\ \E logoOk \in BOOLEAN, faviconOk \in BOOLEAN :
                images' = images \cup ImagesSaved(result.ok, st.d, logoOk, faviconOk)
  /\ pc' = "done"
  /\ UNCHANGED << tables, flow, url, scrapeVars, prompt, soup, now, calls, call >>

\* The ids of COPY_SECTIONS, and section=None.
SectionIds == { "the_concept", "the_cuisine", "group_dining", "meta_title", "meta_description" }

NoSection == ""

\* The website text put whole into the prompt.
PromptText_Whole(website_text, section) == website_text

\* The website text as generate_copy puts it into the prompt: the
\* single-section prompt for a known section, the all-sections prompt
\* without one.
PromptText(website_text, section) ==
  IF section \in SectionIds
  THEN TextSlice(website_text, PROMPT_LIMIT)
  ELSE TextSlice(website_text, PROMPT_LIMIT)

GenerateAccept ==
  /\ pc = "returned"
  /\ flow = "Generate"
  /\ \E found_rid \in OpenTableResults, found_resy \in ResyResults :
       LET st == Handled("Generate", FillSteps, found_rid, found_resy)
       IN  /\ session' = st.session
           /\ db' = st.db
           /\ events' = st.events
           /\ requests' = st.requests
           /\ cache' = CacheAfterWrite(cache, url, st.d)
  /\ prompt' = IF result.ok THEN PromptText(result.text, NoSection) ELSE prompt
  /\ pc' = "done"
  /\ UNCHANGED << tables, flow, images, url, scrapeVars, soup, now, calls, call >>

DetectAccept ==
  /\ pc = "returned"
  /\ flow = "Detect"
  /\ \E found_rid \in OpenTableResults, found_resy \in ResyResults :
       LET st == Handled("Detect", FillSteps, found_rid, found_resy)
       IN  /\ session' = st.session
           /\ db' = st.db
           /\ events' = st.events
           /\ requests' = st.requests \o ImageRequests(result.ok, st.d)
           /\ cache' = CacheAfterWrite(cache, url, st.d)
           /\ \E logoOk \in BOOLEAN, faviconOk \in BOOLEAN :
                images' = images \cup ImagesSaved(result.ok, st.d, logoOk, faviconOk)
  /\ pc' = "done"
  /\ UNCHANGED << tables, flow, url, scrapeVars, prompt, soup, now, calls, call >>

Next ==
  \/ AddClicked
  \/ GenerateClicked
  \/ DetectClicked
  \/ FetchHome
  \/ FetchStylesheet
  \/ FetchSubpage
  \/ AddAccept
  \/ GenerateAccept
  \/ DetectAccept

Spec == Init /\ [][Next]_vars

\* ------------------------------------------------------------------------
\* The extractors run on their own over a range of documents
\* ------------------------------------------------------------------------

Chars3 == <<"#", "a", "b", "c">>

Chars4 == <<"#", "0", "a", "8", "f">>

Chars6 == <<"#", "1", "A", "2", "b", "3", "c">>

Chars8 == <<"#", "1", "A", "2", "b", "3", "c", "f", "f">>

\* Contents of <meta name="theme-color">: none, hex values of 3, 6 and 8
\* digits, and a colour name.
ThemeValues == { <<>>, Chars3, Chars6, Chars8, <<"c", "o", "r", "a", "l">> }

\* Values of a matching custom property: none, and hex values of 3, 4, 6
\* and 8 digits.
VarValues ==
  { <<>>, <<"#", "0", "a", "8">>, Chars4, <<"#", "0", "0", "A", "A", "8", "8">>,
    <<"#", "0", "0", "A", "A", "8", "8", "c", "c">> }

\* The 6-digit colours of the inline CSS: none, one colour twice, one
\* colour exactly three times among neutrals.
InlineValues ==
  { <<>>, <<Coral, Grey, Coral>>, <<Coral, Grey, Coral, Grey, Grey, Grey, Coral>> }

ThemeCss == [href |-> Ref("/theme.css", FALSE), skip |-> FALSE]

BrandCss == [href |-> Ref("/brand.css", FALSE), skip |-> FALSE]

FontsCss ==
  [href |-> Ref("https://fonts.googleapis.com/css2?family=Lora", TRUE), skip |-> TRUE]

\* The <link rel="stylesheet"> lists of the documents.
SheetLinks ==
  { <<>>, <<ThemeCss>>, <<FontsCss, BrandCss>>, <<ThemeCss, BrandCss>> }

\* The body the site holds at a stylesheet URL, as a number in SheetBodies
\* (0: nothing to serve).
SheetServes(sheet_url) ==
  IF sheet_url = BaseUrl(FinalPlain) \o "/theme.css" THEN 1
  ELSE IF sheet_url = BaseUrl(FinalPlain) \o "/brand.css" THEN 2
  ELSE 0

\* The documents whose colour is extracted.
ColorDocuments ==
  { [ BlankPage EXCEPT !.themeColor = t, !.inlineVar = v,
                       !.inlineHex6 = h, !.sheets = l ] :
      t \in ThemeValues, v \in VarValues, h \in InlineValues, l \in SheetLinks }

\* What follows tel: in the first such href: none, a US number with its
\* country code, and numbers of 9, 10, 11 and 12 digits.
TelValues ==
  { <<>>,
    <<"+","1","-","2","1","5","-","5","5","5","-","0","1","0","0">>,
    <<"2","1","5","-","5","5","5","-","0","1","0">>,
    <<"2","1","5","5","5","5","0","1","0","0">>,
    <<"2","-","2","1","5","-","5","5","5","-","0","1","0","0">>,
    <<"+","4","4","2","0","7","9","4","6","0","1","0","0">> }

AriaValues ==
  { <<>>, <<"(","2","1","5",")"," ","5","5","5","-","0","1","9","9">> }

LabelValues ==
  { <<>>, <<"2","1","5",".","5","5","5",".","0","1","4","2">> }

StarrUpper == <<"S","t","a","r","r","R","e","s","t","a","u","r","a","n","t","s","/">>

StarrQuery ==
  <<"s","t","a","r","r","r","e","s","t","a","u","r","a","n","t","s","?","r","e","f","=","f","t">>

ParcPhl == <<"p","a","r","c","p","h","l">>

\* The facebook.com hrefs of a document, in document order: none, the
\* restaurant's own, the corporate one, both in either order, and the
\* corporate one with a query string.
FacebookLinks ==
  { <<>>, <<ParcPhl>>, <<StarrUpper>>, <<StarrUpper, ParcPhl>>, <<ParcPhl, StarrUpper>>,
    <<StarrQuery>> }

StarrUnderscore ==
  <<"s","t","a","r","r","_","r","e","s","t","a","u","r","a","n","t","s">>

\* The instagram.com hrefs of a document, in document order.
InstagramLinks ==
  { <<>>, <<<<"p","a","r","c","/">>>>, <<StarrUnderscore, <<"p","a","r","c","/">>>> }

First(links) == IF links = <<>> THEN <<>> ELSE Head(links)

Later(links) == IF links = <<>> THEN <<>> ELSE Tail(links)

\* The documents whose contact details are extracted.
ContactDocuments ==
  { [ BlankPage EXCEPT !.telHref = t, !.ariaPhone = a, !.labelPhone = l,
                       !.fbSlug = First(f), !.fbLater = Later(f),
                       !.igSlug = First(g), !.igLater = Later(g) ] :
      t \in TelValues, a \in AriaValues, l \in LabelValues,
      f \in FacebookLinks, g \in InstagramLinks }

Spread29 == <<"8", "0", "8", "0", "9", "d">>

Spread30 == <<"8", "0", "8", "0", "9", "E">>

White == <<"f", "f", "f", "f", "f", "f">>

Black == <<"0", "0", "0", "0", "0", "0">>

\* The 6-digit colours of the inline CSS of the documents that probe the
\* neutral filter: spreads of 29 and of 30 three times, a spread of 30
\* once, white and black, and the 6-digit form of #abc.
ProbeHex6 ==
  { <<Spread29, Spread29, Spread29>>, <<Spread30, Spread30, Spread30>>, <<Spread30>>,
    <<White, Black, White, Black, White>>, << <<"A", "A", "B", "B", "C", "C">> >> }

\* Their 3-digit colours: none, #abc twice, a grey three times.
ProbeHex3 ==
  { <<>>, << <<"a", "b", "c">>, <<"a", "b", "c">> >>,
    << <<"8", "8", "8">>, <<"8", "8", "8">>, <<"8", "8", "8">> >> }

\* The documents whose colours are filtered and counted.
NeutralDocuments ==
  { [ BlankPage EXCEPT !.inlineHex6 = h, !.inlineHex3 = t, !.sheets = l ] :
      h \in ProbeHex6, t \in ProbeHex3, l \in { <<>>, <<ThemeCss>> } }

\* Resy markers of a document: none, the widget script alone, a venue
\* link in the long form, a venue link in the short form next to the widget.
ResyMarkers ==
  { [widget |-> FALSE, cities |-> FALSE, long |-> "", short |-> <<>>],
    [widget |-> TRUE, cities |-> FALSE, long |-> "", short |-> <<>>],
    [widget |-> FALSE, cities |-> TRUE,
     long |-> "https://resy.com/cities/philadelphia-pa/venues/parc",
     short |-> <<"philadelphia-pa", "venues">>],
    [widget |-> TRUE, cities |-> TRUE, long |-> "", short |-> <<"phl", "parc">>] }

\* The documents whose booking platform is detected, with and without
\* OpenTable markers, a rid, a Tripleseat form, a phone and a Facebook link.
BookingDocuments ==
  { [ BlankPage EXCEPT !.resyWidget = r.widget, !.resyCities = r.cities,
                       !.resyLong = r.long, !.resyShort = r.short,
                       !.otMarker = o, !.otRid = rid,
                       !.tripleseat = t, !.leadFormId = IF t THEN "777" ELSE "",
                       !.telHref = tel, !.fbSlug = fb ] :
      r \in ResyMarkers, o \in BOOLEAN, rid \in {"", "4242"}, t \in BOOLEAN,
      tel \in { <<>>, <<"2","1","5","5","5","5","0","1","0","0">> },
      fb \in { <<>>, ParcPhl } }

\* An <img src> of a document.
Img(src, explicit, hint, inHeader) ==
  [src |-> Ref(src, FALSE), explicit |-> explicit, hint |-> hint, inHeader |-> inHeader]

\* The <img> lists of the documents a logo is looked for in: none, one
\* without any hint, hinted ones inside and outside <header>/<nav>, and one
\* with the custom-logo class after them.
ImgLists ==
  { <<>>,
    << Img("/img/hero.jpg", FALSE, FALSE, TRUE) >>,
    << Img("/img/hero.jpg", FALSE, FALSE, TRUE), Img("/img/foot-logo.png", FALSE, TRUE, FALSE) >>,
    << Img("/img/foot-logo.png", FALSE, TRUE, FALSE), Img("/img/nav-logo.png", FALSE, TRUE, TRUE) >>,
    << Img("/img/foot-logo.png", FALSE, TRUE, FALSE), Img("/img/nav-logo.png", FALSE, TRUE, TRUE),
       Img("/img/custom-logo.png", TRUE, TRUE, FALSE) >> }

\* The sizes attribute of a <link rel="icon">: missing, below and at the
\* least width, above it, and not a number.
SizesValues ==
  { <<>>, <<"3","2","x","3","2">>, <<"9","9","x","9","9">>, <<"1","0","0","x","1","0","0">>,
    <<"1","9","2","x","1","9","2">>, <<"a","n","y">> }

\* The <link rel> lists of those documents: none, an apple-touch-icon
\* alone, one icon of every sizes value, a 32-pixel icon before one of every
\* sizes value.
IconLists ==
  { <<>>, << [rels |-> {"apple-touch-icon"}, href |-> Ref("/touch.png", FALSE), sizes |-> <<>>] >> }
    \cup { << [rels |-> {"shortcut", "icon"}, href |-> Ref("/icon-a.png", FALSE), sizes |-> z] >> :
            z \in SizesValues }
    \cup { << [rels |-> {"icon"}, href |-> Ref("/icon-a.png", FALSE), sizes |-> <<"3","2","x","3","2">>],
             [rels |-> {"icon"}, href |-> Ref("/icon-b.png", FALSE), sizes |-> z] >> :
            z \in SizesValues }

LogoDocuments ==
  { [ BlankPage EXCEPT !.imgs = i, !.icons = l ] : i \in ImgLists, l \in IconLists }

Documents ==
  ColorDocuments \cup ContactDocuments \cup NeutralDocuments \cup BookingDocuments
    \cup LogoDocuments

\* A parsed document is at hand and nothing else has happened.
ExtractInit ==
  /\ pc = "parsed"
  /\ soup \in Documents
  /\ flow = ""
  /\ session = [url |-> NoUrl, fields |-> NoFields]
  /\ db = [exists |-> FALSE, url |-> NoUrl, fields |-> NoFields]
  /\ images = {}
  /\ url = NoUrl
  /\ requests = <<>>
  /\ home = 0
  /\ homeExc = NoExc
  /\ sheetQueue = <<>>
  /\ external_parts = <<>>
  /\ detected = EmptyDict
  /\ queue = <<>>
  /\ subpage_parts = <<>>
  /\ outcomes = <<>>
  /\ result = NoResult
  /\ events = <<>>
  /\ prompt = <<>>
  /\ call = NoCall
  /\ cache = EmptyCache
  /\ now = 0
  /\ calls = <<>>
  /\ tables = NoTables

handlerVars ==
  << flow, session, db, images, url, home, homeExc, queue, subpage_parts, outcomes,
     result, events, prompt, soup, cacheVars, tables >>

\* _detect_site_metadata(soup, html_str) on the document.
ExtractMetadata ==
  /\ pc = "parsed"
  /\ detected' = _detect_site_metadata(soup)
  /\ pc' = "metadata"
  /\ UNCHANGED << handlerVars, requests, sheetQueue, external_parts, call >>

\* _extract_primary_color(soup, base_url) up to its stylesheet loop: a
\* colour the document alone gives is returned without any request.
ExtractColor ==
  /\ pc = "parsed"
  /\ sheetQueue' = SheetUrls(soup, BaseUrl(FinalPlain))
  /\ IF sheetQueue' = <<>>
     THEN /\ detected' = [primary_color |-> _extract_primary_color(soup, <<>>)]
          /\ pc' = "color"
     ELSE /\ pc' = "sheets"
          /\ UNCHANGED detected
  /\ UNCHANGED << handlerVars, requests, external_parts, call >>

\* One pass of the stylesheet loop: the GET raises, answers not ok, or
\* answers with the body the site holds; after the last pass the colour is
\* taken from what was read.
ExtractColorSheet ==
  /\ pc = "sheets"
  /\ requests' = Append(requests, RefRequest("stylesheet", Head(sheetQueue), SHEET_TIMEOUT))
  /\ sheetQueue' = Tail(sheetQueue)
  /\ \E answer \in { Raised(e) : e \in Exceptions }
                     \cup { Answered(0), Answered(SheetServes(Head(sheetQueue))) } :
       /\ external_parts' = IF answer.raised \/ answer.doc = 0 THEN external_parts
                            ELSE Append(external_parts, SheetBodies[answer.doc])
       /\ IF Tail(sheetQueue) = <<>>
          THEN /\ detected' = [primary_color |->
                                 _extract_primary_color(soup, external_parts')]
               /\ pc' = "color"
          ELSE UNCHANGED << pc, detected >>
  /\ UNCHANGED << handlerVars, call >>

\* _extract_logo_url(soup, base_url) on the document.
ExtractLogo ==
  /\ pc = "parsed"
  /\ detected' = [logo_url |-> _extract_logo_url(soup, BaseUrl(FinalPlain))]
  /\ pc' = "logo"
  /\ UNCHANGED << handlerVars, requests, sheetQueue, external_parts, call >>

\* One call of _search_opentable_rid.
CallSearchOpenTable ==
  /\ pc = "parsed"
  /\ requests' = Append(requests, RefRequest("search", "opentable_rid", SEARCH_TIMEOUT))
  /\ \E answer \in OpenTableAnswers :
       call' = SearcherCall("_search_opentable_rid", answer, _search_opentable_rid(answer))
  /\ pc' = "searched"
  /\ UNCHANGED << handlerVars, sheetQueue, external_parts, detected >>

\* One call of _search_resy_url.
CallSearchResy ==
  /\ pc = "parsed"
  /\ requests' = Append(requests, RefRequest("search", "resy_url", SEARCH_TIMEOUT))
  /\ \E answer \in ResyAnswers :
       call' = SearcherCall("_search_resy_url", answer, _search_resy_url(answer))
  /\ pc' = "searched"
  /\ UNCHANGED << handlerVars, sheetQueue, external_parts, detected >>

ExtractNext ==
  \/ ExtractMetadata
  \/ ExtractColor
  \/ ExtractColorSheet
  \/ ExtractLogo
  \/ CallSearchOpenTable
  \/ CallSearchResy

ExtractSpec == ExtractInit /\ [][ExtractNext]_vars

\* ------------------------------------------------------------------------
\* Repeated Detect clicks over the cache of scrape_website
\* ------------------------------------------------------------------------

\* The number of scrape_website calls followed.
MaxCalls == 3

\* The clock moves in steps of half the TTL, MaxTicks times at most.
MaxTicks == 2

TickSeconds == TTL \div 2

\* The restaurant was added earlier, nothing was scraped yet.
CacheInit ==
  /\ pc = "idle"
  /\ flow = "Detect"
  /\ session = [url |-> StoredUrl, fields |-> NoFields]
  /\ db = [exists |-> TRUE, url |-> StoredUrl, fields |-> NoFields]
  /\ images = {}
  /\ url = NoUrl
  /\ requests = <<>>
  /\ home = 0
  /\ homeExc = NoExc
  /\ sheetQueue = <<>>
  /\ external_parts = <<>>
  /\ detected = EmptyDict
  /\ queue = <<>>
  /\ subpage_parts = <<>>
  /\ outcomes = <<>>
  /\ result = NoResult
  /\ events = <<>>
  /\ prompt = <<>>
  /\ soup = BlankPage
  /\ call = NoCall
  /\ cache = EmptyCache
  /\ now = 0
  /\ calls = <<>>
  /\ tables = NoTables

\* scrape_website(stored_url) through st.cache_data: a live entry is handed
\* out without running the function; otherwise the function body starts.
ScrapeCalled ==
  /\ pc = "idle"
  /\ Len(calls) < MaxCalls
  /\ LET key == session.url
     IN  /\ url' = key
         /\ IF CacheLive(cache, key, now)
            THEN /\ result' = cache[key].value
                 /\ calls' = Append(calls, CallRecord(key, now, TRUE, 0, cache[key].value))
                 /\ pc' = "returned"
            ELSE /\ result' = NoResult
                 /\ calls' = calls
                 /\ pc' = "home"
  /\ requests' = <<>>
  /\ home' = 0
  /\ homeExc' = NoExc
  /\ sheetQueue' = <<>>
  /\ external_parts' = <<>>
  /\ detected' = EmptyDict
  /\ queue' = <<>>
  /\ subpage_parts' = <<>>
  /\ outcomes' = <<>>
  /\ soup' = BlankPage
  /\ UNCHANGED << tables, flow, session, db, images, events, prompt, call, cache, now >>

\* The Detect handler's writes into the dict it was handed (the results of
\* the fallback searches), after which the script waits for the next click.
HandlerWrites ==
  /\ pc = "returned"
  /\ \E found_rid \in OpenTableResults, found_resy \in ResyResults :
       LET st == Handled("Detect", << SearchOpenTable, SearchResy >>, found_rid, found_resy)
       IN  /\ events' = st.events
           /\ requests' = st.requests
           /\ cache' = CacheAfterWrite(cache, url, st.d)
  /\ pc' = "idle"
  /\ UNCHANGED << tables, flow, session, db, images, url, scrapeVars, prompt, soup, call,
                  now, calls >>

\* Time passes between two clicks.
Tick ==
  /\ pc = "idle"
  /\ now < MaxTicks * TickSeconds
  /\ now' = now + TickSeconds
  /\ UNCHANGED << tables, pc, flow, session, db, images, url, requests, scrapeVars, events,
                  prompt, soup, call, cache, calls >>

\* The site of this specification: its home page times out or is document
\* 3, and of its subpages only the first one requested may answer with a
\* document.
CacheNext ==
  \/ ScrapeCalled
  \/ FetchHome /\ (homeExc'.name = "ReadTimeout" \/ home' = 3)
  \/ FetchStylesheet
  \/ FetchSubpage /\ (\A i \in 2..Len(outcomes') : outcomes'[i] = 0)
  \/ HandlerWrites
  \/ Tick

CacheSpec == CacheInit /\ [][CacheNext]_vars

\* ------------------------------------------------------------------------
\* The database layer: restaurants, images and copy_sections
\* ------------------------------------------------------------------------

\* The cleaned names, URLs, image fields, image bytes, section ids and
\* contents the calls are made with.
Names == { "Parc", "Buddakan" }

WebsiteUrls == { "", "https://parc.example" }

ImageFields == { "Hero" }

ImageBytes == { "jpeg-1", "jpeg-2" }

CopySections == { "the_concept", "the_cuisine" }

Contents == { "old", "new" }

\* The dicts save_all_copy is called with: every section, or one.
CopyDicts ==
  UNION { [ S -> Contents ] : S \in { CopySections, {"the_concept"} } }

\* Whether restaurants has a row with this primary key.
HasRestaurant(t, name) == \E r \in t.restaurants : r.name = name

\* An INSERT into images or copy_sections fails with an IntegrityError
\* when foreign keys are enforced and the restaurant has no row.
ForeignKeyFails(t, restaurant) == t.foreign_keys /\ ~HasRestaurant(t, restaurant)

\* db.add_restaurant(name, display_name, website_url) on the tables:
\* INSERT OR IGNORE INTO restaurants
insert_restaurant(t, name, display_name, website_url) ==
  IF HasRestaurant(t, name) THEN t
  ELSE [ t EXCEPT !.restaurants =
           @ \cup { [name |-> name, display_name |-> display_name,
                     website_url |-> website_url] } ]

\* db.save_image: INSERT ... ON CONFLICT(restaurant, field_name) DO UPDATE
save_image(t, restaurant, field_name, image_bytes) ==
  IF ForeignKeyFails(t, restaurant) THEN t
  ELSE [ t EXCEPT !.images =
           { r \in @ : ~(r.restaurant = restaurant /\ r.field_name = field_name) }
             \cup { [restaurant |-> restaurant, field_name |-> field_name,
                     image_data |-> image_bytes] } ]

\* db.save_copy_section: INSERT ... ON CONFLICT(restaurant, section_id) DO UPDATE
save_copy_section(t, restaurant, section_id, content) ==
  IF ForeignKeyFails(t, restaurant) THEN t
  ELSE [ t EXCEPT !.copy_sections =
           { r \in @ : ~(r.restaurant = restaurant /\ r.section_id = section_id) }
             \cup { [restaurant |-> restaurant, section_id |-> section_id,
                     content |-> content] } ]

\* db.save_all_copy: the same upsert for every item of copy_dict
save_all_copy(t, restaurant, copy_dict) ==
  IF ForeignKeyFails(t, restaurant) THEN t
  ELSE [ t EXCEPT !.copy_sections =
           { r \in @ : ~(r.restaurant = restaurant /\ r.section_id \in DOMAIN copy_dict) }
             \cup { [restaurant |-> restaurant, section_id |-> s, content |-> copy_dict[s]] :
                    s \in DOMAIN copy_dict } ]

\* The delete without the two explicit DELETEs: the other tables' rows go
\* only by ON DELETE CASCADE, which needs foreign keys enforced.
delete_restaurant_CascadeOnly(t, name) ==
  IF t.foreign_keys
  THEN [ t EXCEPT !.images = { r \in @ : r.restaurant # name },
                  !.copy_sections = { r \in @ : r.restaurant # name },
                  !.restaurants = { r \in @ : r.name # name } ]
  ELSE [ t EXCEPT !.restaurants = { r \in @ : r.name # name } ]

\* db.delete_restaurant(name): DELETE FROM images, copy_sections, restaurants
delete_restaurant(t, name) ==
  [ t EXCEPT !.images = { r \in @ : r.restaurant # name },
             !.copy_sections = { r \in @ : r.restaurant # name },
             !.restaurants = { r \in @ : r.name # name } ]

\* The last call of the database layer.
DbCall(fn, name) == [fn |-> fn, name |-> name]

dbFrame ==
  << flow, session, db, images, url, requests, scrapeVars, events, prompt, soup,
     cacheVars >>

\* The tables are empty; foreign keys are enforced (local sqlite3 with
\* PRAGMA foreign_keys=ON) or not (a driver that ignores the pragma).
DbInit ==
  /\ pc = "db"
  /\ tables \in { [NoTables EXCEPT !.foreign_keys = b] : b \in BOOLEAN }
  /\ call = DbCall("init_db", "")
  /\ soup = BlankPage
  /\ flow = ""
  /\ session = [url |-> NoUrl, fields |-> NoFields]
  /\ db = [exists |-> FALSE, url |-> NoUrl, fields |-> NoFields]
  /\ images = {}
  /\ url = NoUrl
  /\ requests = <<>>
  /\ home = 0
  /\ homeExc = NoExc
  /\ sheetQueue = <<>>
  /\ external_parts = <<>>
  /\ detected = EmptyDict
  /\ queue = <<>>
  /\ subpage_parts = <<>>
  /\ outcomes = <<>>
  /\ result = NoResult
  /\ events = <<>>
  /\ prompt = <<>>
  /\ cache = EmptyCache
  /\ now = 0
  /\ calls = <<>>

CallAddRestaurant ==
  /\ \E name \in Names, website_url \in WebsiteUrls :
       /\ tables' = insert_restaurant(tables, name, name, website_url)
       /\ call' = DbCall("add_restaurant", name)
  /\ UNCHANGED << pc, dbFrame >>

CallSaveImage ==
  /\ \E name \in Names, field_name \in ImageFields, image_bytes \in ImageBytes :
       /\ tables' = save_image(tables, name, field_name, image_bytes)
       /\ call' = DbCall("save_image", name)
  /\ UNCHANGED << pc, dbFrame >>

CallSaveCopySection ==
  /\ \E name \in Names, section_id \in CopySections, content \in Contents :
       /\ tables' = save_copy_section(tables, name, section_id, content)
       /\ call' = DbCall("save_copy_section", name)
  /\ UNCHANGED << pc, dbFrame >>

CallSaveAllCopy ==
  /\ \E name \in Names, copy_dict \in CopyDicts :
       /\ tables' = save_all_copy(tables, name, copy_dict)
       /\ call' = DbCall("save_all_copy", name)
  /\ UNCHANGED << pc, dbFrame >>

CallDeleteRestaurant ==
  /\ \E name \in Names :
       /\ tables' = delete_restaurant(tables, name)
       /\ call' = DbCall("delete_restaurant", name)
  /\ UNCHANGED << pc, dbFrame >>

DbNext ==
  \/ CallAddRestaurant
  \/ CallSaveImage
  \/ CallSaveCopySection
  \/ CallSaveAllCopy
  \/ CallDeleteRestaurant

DbSpec == DbInit /\ [][DbNext]_vars

\* ------------------------------------------------------------------------
\* Views of a run used by the properties
\* ------------------------------------------------------------------------

\* scrape_website has returned (the handler may have finished as well).
Returned == pc \in {"returned", "done"}

\* The state in which scrape_website returns: the handler has not yet
\* acted on the result, and leaves the call's variables as they are.
AtReturn == pc = "returned"

\* Inside the scrape_website call, its return included.
InScrape == pc \in {"home", "css", "sub", "returned"}

\* The home-page GET answered and the page was processed.
HomeOk == home # 0

HomePage == HomeResponses[home].page

HomeFinal == HomeResponses[home].final

SubRequests == SelectSeq(requests, LAMBDA r : r.kind = "subpage")

SheetRequests == SelectSeq(requests, LAMBDA r : r.kind = "stylesheet")

\* The numbers of the subpage requests that brought a document back.
LiveIndexes == { i \in 1..Len(outcomes) : outcomes[i] # 0 }

\* What each page's own extraction gives for field f, in merge order: the
\* home page, then the subpages that came back, in request order.
ValuesInOrder(f) ==
  << _detect_site_metadata(HomePage)[f] >>
    \o [ i \in 1..Len(SelectSeq(outcomes, LAMBDA o : o # 0)) |->
           _detect_site_metadata(SubPages[SelectSeq(outcomes, LAMBDA o : o # 0)[i]])[f] ]

\* The first non-empty value of a sequence of strings, "" if there is none.
RECURSIVE FirstNonEmpty(_)
FirstNonEmpty(vals) ==
  IF vals = <<>> THEN ""
  ELSE IF Head(vals) # "" THEN Head(vals) ELSE FirstNonEmpty(Tail(vals))

\* The sections the combined text is expected to consist of, from the
\* pages that came back: one per subpage with more than 30 characters, in
\* request order, then the home page's.
RECURSIVE ExpectedSections(_)
ExpectedSections(i) ==
  IF i > Len(outcomes) THEN
    IF HomePage.text > 0
    THEN << << Run("homelabel", <<>>, 12), Run("home", <<>>, HomePage.text) >> >>
    ELSE <<>>
  ELSE IF outcomes[i] # 0 /\ SubPages[outcomes[i]].text > 30
  THEN << << Run("label", PathLabel(SubRequests[i].url.path),
                 Len(PathLabel(SubRequests[i].url.path)) + 3),
             Run("text", SubRequests[i].url.path, SubPages[outcomes[i]].text) >> >>
         \o ExpectedSections(i + 1)
  ELSE ExpectedSections(i + 1)

\* The sections joined by the two-character separator.
RECURSIVE ExpectedJoin(_)
ExpectedJoin(sections) ==
  IF sections = <<>> THEN <<>>
  ELSE IF Len(sections) = 1 THEN sections[1]
  ELSE sections[1] \o << Run("sep", <<>>, 2) >> \o ExpectedJoin(Tail(sections))

ExpectedCombined == ExpectedJoin(ExpectedSections(1))

\* ------------------------------------------------------------------------
\* C1
\* ------------------------------------------------------------------------

\* C1 as claimed: whatever scrape_website returns, ok or not, detected has
\* every one of the 18 fields, each bound to a string.
C1_AllFieldsAlways ==
  Returned /\ url # NoUrl =>
    /\ DOMAIN result.detected = AllFields
    /\ \A f \in AllFields : result.detected[f] \in STRING

\* ------------------------------------------------------------------------
\* C2
\* ------------------------------------------------------------------------

\* C2: first-detected-wins.  From the home page on, every metadata field
\* of detected holds the value extracted from the first page, in the order
\* home page then fetched subpages in request order, whose own extraction
\* of the field is not empty; a result with ok=true returns those values.
C2_FirstDetectedWins ==
  /\ (HomeOk /\ InScrape) =>
       \A f \in MetaFields : detected[f] = FirstNonEmpty(ValuesInOrder(f))
  /\ (AtReturn /\ result.ok) =>
       \A f \in MetaFields : result.detected[f] = FirstNonEmpty(ValuesInOrder(f))

\* A returned result one of whose fields a later page had another value for.
C2_Witness ==
  /\ Returned
  /\ result.ok
  /\ \E f \in MetaFields : \E i \in 2..Len(ValuesInOrder(f)) :
       /\ ValuesInOrder(f)[i] # ""
       /\ ValuesInOrder(f)[i] # result.detected[f]

\* ------------------------------------------------------------------------
\* C3
\* ------------------------------------------------------------------------

\* C3: the returned text is never longer than 8000 characters, and with
\* ok=true it is the first 8000 characters of the text assembled from the
\* uncut sections of every kept subpage and of the home page.
C3_TextCut ==
  /\ TextLen(result.text) <= 8000
  /\ (AtReturn /\ result.ok) => result.text = TextSlice(ExpectedCombined, 8000)

\* A result cut from an assembled text longer than the limit.
C3_Witness ==
  /\ Returned
  /\ result.ok
  /\ TextLen(ExpectedCombined) > 8000
  /\ TextLen(result.text) = 8000

\* ------------------------------------------------------------------------
\* C4
\* ------------------------------------------------------------------------

\* C4: when the home-page GET raises, scrape_website has returned ok=false
\* with no text and the message of the failure's class (timeout, else
\* connection error, else HTTP error with the status code in it, else the
\* generic one), the four messages differ pairwise, and the home-page GET
\* is the only request of the whole flow.
C4_HomeFailure ==
  homeExc # NoExc =>
    LET timeout == << "Website took too long to respond. Please try again." >>
        connect == << "Could not connect to website. Please check the URL." >>
        status  == << "Website returned error ", ToString(homeExc.status),
                      ". Please verify the URL." >>
        generic == << "Could not fetch website. Please check the URL and try again." >>
    IN  /\ Returned
        /\ ~result.ok
        /\ result.text = <<>>
        /\ result.error =
             IF "Timeout" \in homeExc.classes THEN timeout
             ELSE IF "ConnectionError" \in homeExc.classes THEN connect
             ELSE IF "HTTPError" \in homeExc.classes THEN status
             ELSE generic
        /\ Cardinality({timeout, connect, status, generic}) = 4
        /\ requests = << PageRequest("home", NormalizeUrl(url), 10) >>
        /\ home = 0
        /\ outcomes = <<>>

\* A connect timeout, which is a Timeout and a ConnectionError at once,
\* reported with the timeout message.
C4_Witness ==
  /\ Returned
  /\ homeExc.name = "ConnectTimeout"
  /\ result.error = << "Website took too long to respond. Please try again." >>
  /\ Len(requests) = 1

\* ------------------------------------------------------------------------
\* C5
\* ------------------------------------------------------------------------

\* The fields the Add handler accepts after both of its search steps.
FieldsAfterSearches ==
  { "mailing_list_url", "facebook_url", "instagram_url", "phone",
    "email_general", "email_events", "email_marketing", "email_press",
    "address", "google_maps_url", "order_online_url" }

\* C5: failure isolation.  Once the home page was fetched, the call has,
\* at its return, requested every stylesheet of the page and every one of
\* the first 10 candidates whatever the earlier requests gave, and its
\* result is the one computed from the pages that came back; a searcher
\* that returns "" leaves the handler running, which still accepts the
\* fields that follow the search.
C5_FailureIsolation ==
  /\ (HomeOk /\ AtReturn) =>
       /\ Len(outcomes) = Min(10, Cardinality(SubpageUrls(HomeFinal, HomePage.anchors)))
       /\ Len(SubRequests) = Len(outcomes)
       /\ Len(SheetRequests) = Len(SheetUrls(HomePage, BaseUrl(HomeFinal)))
       /\ result.ok <=> TextLen(ExpectedCombined) >= 50
       /\ result.ok =>
            /\ result.text = TextSlice(ExpectedCombined, 8000)
            /\ \A f \in MetaFields :
                 result.detected[f] = FirstNonEmpty(ValuesInOrder(f))
  /\ (pc = "done" /\ result.ok /\ flow = "Add") =>
       \A f \in FieldsAfterSearches :
         result.detected[f] # "" => session.fields[f] = result.detected[f]

\* A finished Add flow on a scrape in which a subpage request that brought
\* nothing back was followed by one that was merged, a stylesheet request
\* gave no body, the Resy search found nothing, and a later field was
\* accepted all the same.
C5_Witness ==
  /\ pc = "done"
  /\ flow = "Add"
  /\ result.ok
  /\ \E i \in 1..Len(outcomes) : \E j \in 1..Len(outcomes) :
       i < j /\ outcomes[i] = 0 /\ outcomes[j] # 0
  /\ Len(external_parts) < Len(SheetRequests)
  /\ SearchResy \in { events[i] : i \in 1..Len(events) }
  /\ session.fields["resy_url"] = ""
  /\ session.fields["order_online_url"] # ""

\* ------------------------------------------------------------------------
\* C6
\* ------------------------------------------------------------------------

\* C6: after a successful home-page fetch the call returns ok=false with
\* the "very little text content" message exactly when the assembled text,
\* labels and separators included, is shorter than 50 characters.
C6_LittleText ==
  (HomeOk /\ AtReturn) =>
    /\ (~result.ok /\ result.error = LittleTextMessage /\ result.text = <<>>)
         <=> TextLen(ExpectedCombined) < 50
    /\ (result.ok /\ result.error = <<>>) <=> TextLen(ExpectedCombined) >= 50

\* An assembled text of exactly 50 characters, returned with ok=true.
C6_Witness ==
  /\ HomeOk
  /\ Returned
  /\ TextLen(ExpectedCombined) = 50
  /\ result.ok

\* ------------------------------------------------------------------------
\* C7
\* ------------------------------------------------------------------------

\* The runs of a text.
Runs(t) == { t[i] : i \in 1..Len(t) }

\* The uncut text run of the subpage of request k.
FullTextRun(k) ==
  Run("text", SubRequests[k].url.path, SubPages[outcomes[k]].text)

\* The requests whose page's text is kept as a section.
KeptIndexes == { k \in LiveIndexes : SubPages[outcomes[k]].text > 30 }

\* C7: subpage-first assembly.  In a returned text every subpage section
\* comes before the home-page section and the subpage sections follow the
\* request order; whenever any home-page text is left after the cut, every
\* subpage's text is complete; and with one subpage of 7000 characters and
\* a home page of 3000 the text holds the subpage's 7000 characters whole.
C7_SubpagesFirst ==
  (AtReturn /\ result.ok) =>
    LET t == result.text
    IN  /\ \A i \in 1..Len(t) : \A j \in 1..Len(t) :
             (t[i].kind \in {"homelabel", "home"} /\ t[j].kind \in {"label", "text"})
               => j < i
        /\ \A i \in 1..Len(t) : \A j \in 1..Len(t) :
             (i < j /\ t[i].kind = "text" /\ t[j].kind = "text") =>
               \E a \in KeptIndexes : \E b \in KeptIndexes :
                 /\ a < b
                 /\ SubRequests[a].url.path = t[i].path
                 /\ SubRequests[b].url.path = t[j].path
        /\ \A i \in 1..Len(t) :
             t[i].kind = "text" =>
               /\ i > 1
               /\ t[i - 1] = Run("label", PathLabel(t[i].path), Len(PathLabel(t[i].path)) + 3)
        /\ (\E i \in 1..Len(t) : t[i].kind = "home") =>
             \A k \in KeptIndexes : FullTextRun(k) \in Runs(t)
        /\ \A k \in LiveIndexes :
             (LiveIndexes = {k} /\ SubPages[outcomes[k]].text = 7000 /\ HomePage.text = 3000)
               => /\ FullTextRun(k) \in Runs(t)
                  /\ TextLen(t) = 8000

\* One subpage of 7000 characters and a home page of 3000: the cut fell
\* in the home page's text.
C7_Witness ==
  /\ Returned
  /\ result.ok
  /\ HomePage.text = 3000
  /\ \E k \in LiveIndexes :
       /\ LiveIndexes = {k}
       /\ SubPages[outcomes[k]].text = 7000
       /\ FullTextRun(k) \in Runs(result.text)
  /\ \E i \in 1..Len(result.text) :
       result.text[i].kind = "home" /\ result.text[i].len < 3000

\* ------------------------------------------------------------------------
\* C8
\* ------------------------------------------------------------------------

\* The fetched subpages whose own extraction names a booking platform.
BookingIndexes ==
  { k \in LiveIndexes : _detect_site_metadata(SubPages[outcomes[k]])["booking"] # "" }

\* C8 as claimed, read for the calls that return ok=true: the home page's
\* extraction leaves booking empty and some fetched subpage contains Resy
\* markers, so the returned booking is "Resy".
C8_ResyFromAnySubpage ==
  ( /\ Returned
    /\ result.ok
    /\ _detect_site_metadata(HomePage)["booking"] = ""
    /\ \E k \in LiveIndexes : ResyMarker(SubPages[outcomes[k]]) )
  => result.detected["booking"] = "Resy"

\* C8 amended: the home page's extraction leaves booking empty and the
\* first fetched subpage, in request order, that carries a marker of any
\* booking platform contains Resy markers; then the booking scrape_website
\* detected is "Resy", and a result with ok=true returns it.
C8_ResyFromFirstBookingSubpage ==
  ( /\ AtReturn
    /\ HomeOk
    /\ _detect_site_metadata(HomePage)["booking"] = ""
    /\ BookingIndexes # {}
    /\ ResyMarker(SubPages[outcomes[CHOOSE k \in BookingIndexes :
                                      \A j \in BookingIndexes : k <= j]]) )
  => /\ detected["booking"] = "Resy"
     /\ result.ok => result.detected["booking"] = "Resy"

\* A result whose booking "Resy" came from a subpage, with an OpenTable
\* subpage fetched after it.
C8_Witness ==
  /\ Returned
  /\ result.ok
  /\ _detect_site_metadata(HomePage)["booking"] = ""
  /\ result.detected["booking"] = "Resy"
  /\ \E k \in BookingIndexes : \E j \in BookingIndexes :
       /\ k < j
       /\ \A i \in BookingIndexes : k <= i
       /\ ResyMarker(SubPages[outcomes[k]])
       /\ ~ResyMarker(SubPages[outcomes[j]])

\* ------------------------------------------------------------------------
\* C9
\* ------------------------------------------------------------------------

\* C9: the subpage GETs of a call are at most 10, each of a candidate
\* (a keyword-matched same-host anchor or a conventional path), each of a
\* URL above the one requested before it, with every candidate not yet
\* requested above the last one requested, and at the return they number
\* 10 or, with fewer candidates, all of them.
C9_SubpageCap ==
  /\ Len(SubRequests) <= 10
  /\ ~HomeOk => SubRequests = <<>>
  /\ (HomeOk /\ InScrape) =>
       LET C == SubpageUrls(HomeFinal, HomePage.anchors)
           R == SubRequests
       IN  /\ \A i \in 1..Len(R) : R[i].url \in C /\ R[i].timeout = 5
           /\ \A i \in 1..(Len(R) - 1) : UrlLess(R[i].url, R[i + 1].url)
           /\ R # <<>> =>
                \A c \in C \ { R[i].url : i \in 1..Len(R) } :
                  UrlLess(R[Len(R)].url, c)
           /\ AtReturn => Len(R) = Min(10, Cardinality(C))

\* A call on a page with 13 candidates that has returned after 10 requests.
C9_Witness ==
  /\ Returned
  /\ HomeOk
  /\ Cardinality(SubpageUrls(HomeFinal, HomePage.anchors)) = 13
  /\ Len(SubRequests) = 10

\* ------------------------------------------------------------------------
\* C10
\* ------------------------------------------------------------------------

\* The positions of a step in the handler's log.
Positions(step) == { i \in 1..Len(events) : events[i] = step }

\* The search requests issued for a field.
SearchRequests(f) == SelectSeq(requests, LAMBDA r : r.kind = "search" /\ r.ref = f)

\* C10: in a finished flow the OpenTable search ran once if the scrape
\* returned ok=true with booking "OpenTable" and no opentable_rid and not
\* at all otherwise, the Resy search ran once if the scrape returned
\* ok=true with no resy_url and not at all otherwise, and a search ran
\* before its field was accepted into the record.
C10_FallbackSearches ==
  /\ \A f \in {"opentable_rid", "resy_url"} :
       /\ Cardinality(Positions([op |-> "search", field |-> f])) <= 1
       /\ Len(SearchRequests(f)) = Cardinality(Positions([op |-> "search", field |-> f]))
       /\ \A i \in Positions([op |-> "search", field |-> f]) :
            \A j \in Positions([op |-> "accept", field |-> f]) : i < j
  /\ pc = "done" =>
       /\ Positions(SearchOpenTable) # {}
            <=> /\ result.ok
                /\ result.detected["booking"] = "OpenTable"
                /\ result.detected["opentable_rid"] = ""
       /\ Positions(SearchResy) # {}
            <=> /\ result.ok
                /\ result.detected["resy_url"] = ""

\* A finished flow in which both searches ran and what the OpenTable
\* search found was accepted after it.
C10_Witness ==
  /\ pc = "done"
  /\ result.ok
  /\ Positions(SearchOpenTable) # {}
  /\ Positions(SearchResy) # {}
  /\ Positions(AcceptStep("opentable_rid")) # {}
  /\ session.fields["opentable_rid"] = "5150"

\* ------------------------------------------------------------------------
\* C12
\* ------------------------------------------------------------------------

C11_SearchersBestEffort ==
  pc = "searched" =>
    /\ call.fn \in {"_search_opentable_rid", "_search_resy_url"}
    /\ (call.answer.raised \/ call.answer.status # 200 \/ call.answer.match = <<>>)
         => call.value = ""
    /\ Len(requests) = 1
    /\ requests[1].kind = "search"
    /\ requests[1].timeout = 10
    /\ requests[1].ref = (IF call.fn = "_search_opentable_rid"
                          THEN "opentable_rid" ELSE "resy_url")

\* A call whose GET came back with status 403 and a body holding the
\* pattern, and that returned "".
C11_Witness ==
  /\ pc = "searched"
  /\ call.fn = "_search_opentable_rid"
  /\ call.answer.status = 403
  /\ call.answer.match # <<>>
  /\ call.value = ""
  /\ Len(requests) = 1

\* ------------------------------------------------------------------------
\* C13
\* ------------------------------------------------------------------------

\* _extract_primary_color is at work on the document or has returned.
InColor == pc \in {"sheets", "color"}

\* C13: when the document's theme-color meta holds a well-formed hex value,
\* _extract_primary_color returns the first seven characters of that value,
\* whatever custom properties and colours the inline and external CSS hold,
\* and requests no stylesheet.
C13_ThemeColorFirst ==
  (InColor /\ IsThemeHex(soup.themeColor)) =>
    /\ pc = "color"
    /\ requests = <<>>
    /\ detected.primary_color = Joined(Slice(soup.themeColor, 7))

\* A document with an 8-digit theme colour, an inline custom property, a
\* colour three times in its inline CSS and two stylesheet links, answered
\* from the theme colour without a request.
C13_Witness ==
  /\ pc = "color"
  /\ soup.themeColor = Chars8
  /\ soup.inlineVar # <<>>
  /\ Len(soup.inlineHex6) = 7
  /\ soup.sheets = <<ThemeCss, BrandCss>>
  /\ detected.primary_color = "#1A2b3c"
  /\ requests = <<>>

\* ------------------------------------------------------------------------
\* C14
\* ------------------------------------------------------------------------

TelDigits(page) ==
  IF Len(OnlyDigits(page.telHref)) = 11 /\ Head(OnlyDigits(page.telHref)) = "1"
  THEN Tail(OnlyDigits(page.telHref)) ELSE OnlyDigits(page.telHref)

\* The digit strings of the document's three phone candidates.
PhoneCandidates(page) ==
  { TelDigits(page), OnlyDigits(page.ariaPhone), OnlyDigits(page.labelPhone) }

\* (NNN) NNN-NNNN written with the ten digits d.
Shaped(d) ==
  "(" \o d[1] \o d[2] \o d[3] \o ") " \o d[4] \o d[5] \o d[6] \o "-"
      \o d[7] \o d[8] \o d[9] \o d[10]

\* C15: the phone _detect_site_metadata returns is "" or (NNN) NNN-NNNN
\* written with the digits of a candidate that strips to exactly ten
\* digits; a candidate of any other length is never surfaced.
C15_PhoneShape ==
  pc = "metadata" =>
    \/ detected.phone = ""
    \/ /\ Len(detected.phone) = 14
       /\ \E d \in PhoneCandidates(soup) : Len(d) = 10 /\ detected.phone = Shaped(d)

\* A document whose only phone candidate is a tel: href of nine digits,
\* returned without a phone.
C15_Witness ==
  /\ pc = "metadata"
  /\ Len(OnlyDigits(soup.telHref)) = 9
  /\ soup.ariaPhone = <<>>
  /\ soup.labelPhone = <<>>
  /\ detected.phone = ""

\* ------------------------------------------------------------------------
\* C16
\* ------------------------------------------------------------------------

PlusOneTel == <<"+","1","-","2","1","5","-","5","5","5","-","0","1","0","0">>

\* The tel: href strips to 9 digits, or to 11 digits not starting with 1.
BadTel(page) ==
  \/ Len(OnlyDigits(page.telHref)) = 9
  \/ Len(OnlyDigits(page.telHref)) = 11 /\ Head(OnlyDigits(page.telHref)) # "1"

\* C16 as claimed: tel:+1-215-555-0100 gives (215) 555-0100, and a document
\* whose tel: href strips to 9 digits, or to 11 digits not starting with 1,
\* gets an empty phone.
C16_BadTelNoPhone ==
  pc = "metadata" =>
    /\ soup.telHref = PlusOneTel => detected.phone = "(215) 555-0100"
    /\ BadTel(soup) => detected.phone = ""

\* C16: tel:+1-215-555-0100 gives (215) 555-0100; a document whose tel:
\* href strips to 9 digits, or to 11 digits not starting with 1, gets no
\* phone from that href: its phone is the aria-label/title number when
\* there is one, else the PHONE: label number when there is one, and
\* empty only when there is neither.
C16_BadTelFallsThrough ==
  pc = "metadata" =>
    /\ soup.telHref = PlusOneTel => detected.phone = "(215) 555-0100"
    /\ BadTel(soup) =>
         detected.phone =
           (IF soup.ariaPhone # <<>> THEN Shaped(OnlyDigits(soup.ariaPhone))
            ELSE IF soup.labelPhone # <<>> THEN Shaped(OnlyDigits(soup.labelPhone))
            ELSE "")

\* A document with a tel: href of 11 digits starting with 2 and a number
\* in an aria-label, returned with the aria-label's number.
C16_Witness ==
  /\ pc = "metadata"
  /\ Len(OnlyDigits(soup.telHref)) = 11
  /\ Head(OnlyDigits(soup.telHref)) = "2"
  /\ soup.ariaPhone # <<>>
  /\ detected.phone = "(215) 555-0199"

\* ------------------------------------------------------------------------
\* C17
\* ------------------------------------------------------------------------

\* The handle of a profile link: what follows the host up to the first
\* "/" or "?", in lower case.
RECURSIVE HandleOf(_)
HandleOf(slug) ==
  IF slug = <<>> \/ Head(slug) \in {"/", "?"} THEN <<>>
  ELSE <<LowerChar(Head(slug))>> \o HandleOf(Tail(slug))

\* The profile links of one platform in the document, first to last.
ProfileLinks(first, later) == IF first = <<>> THEN <<>> ELSE <<first>> \o later

\* The URLs the document's links to handles outside (or inside) the
\* excluded set would be emitted as.
EmittedFor(links, excluded, prefix, corporate) ==
  { prefix \o Joined(RStrip(links[i], "/")) :
      i \in { j \in 1..Len(links) : (HandleOf(links[j]) \in excluded) = corporate } }

\* The claim for one platform: no link to an excluded handle is emitted,
\* and a document with a link to any other handle gets such a link.
SocialAsClaimed(value, links, excluded, prefix) ==
  /\ value \notin EmittedFor(links, excluded, prefix, TRUE)
  /\ EmittedFor(links, excluded, prefix, FALSE) # {}
       => value \in EmittedFor(links, excluded, prefix, FALSE)

\* C17 as claimed: a Facebook or Instagram link to a corporate handle is
\* never emitted as facebook_url / instagram_url, and a document that links
\* to any handle outside the excluded set gets that handle, also when a
\* corporate link is on the page as well.
C17_CorporateExcluded ==
  pc = "metadata" =>
    /\ SocialAsClaimed(detected.facebook_url, ProfileLinks(soup.fbSlug, soup.fbLater),
                       FB_EXCLUDED, "https://www.facebook.com/")
    /\ SocialAsClaimed(detected.instagram_url, ProfileLinks(soup.igSlug, soup.igLater),
                       IG_EXCLUDED, "https://www.instagram.com/")

\* ------------------------------------------------------------------------
\* C19
\* ------------------------------------------------------------------------

\* The hex values the colour may be taken from: the theme colour and the
\* custom properties of the inline CSS and of the stylesheets read.
HexValues ==
  { v \in {soup.themeColor, soup.inlineVar}
            \cup { external_parts[i].var : i \in 1..Len(external_parts) } :
      IsThemeHex(v) }

\* The six digits a hex value stands for: a 3-digit value doubled per
\* digit, the first six digits of a value of six or more.
SixDigits(v) ==
  IF Len(v) = 4 THEN <<v[2], v[2], v[3], v[3], v[4], v[4]>> ELSE SubSeq(v, 2, 7)

\* Every #RRGGBB the document and the stylesheets read can give.
SixDigitColors ==
  { "#" \o Joined(SixDigits(v)) : v \in { w \in HexValues : Len(w) = 4 \/ Len(w) >= 7 } }
    \cup { "#" \o Joined(inline_colors(soup)[i]) : i \in 1..Len(inline_colors(soup)) }
    \cup { "#" \o Joined(c) :
             c \in { _extract_colors(FlatHex6(external_parts), FlatHex3(external_parts))[i] :
                       i \in 1..Len(_extract_colors(FlatHex6(external_parts),
                                                    FlatHex3(external_parts))) } }

\* C19 as claimed: a non-empty colour returned by _extract_primary_color is
\* "#" followed by exactly six hex digits, whichever step produced it (a
\* theme colour or custom property of 3 to 8 digits, or the frequency
\* count); a value that cannot be written so is not returned.
C19_AlwaysSixDigits ==
  (pc = "color" /\ detected.primary_color # "") =>
    /\ Len(detected.primary_color) = 7
    /\ detected.primary_color \in SixDigitColors

\* ------------------------------------------------------------------------
\* C20
\* ------------------------------------------------------------------------

\* The custom-property values of the stylesheets the document links to, in
\* link order, as the site holds them.
LinkedVars(page) ==
  LET kept   == SelectSeq(page.sheets, LAMBDA l : l.href.s # "" /\ ~l.skip)
      served == [i \in 1..Len(kept) |->
                   SheetServes(UrlJoin(BaseUrl(FinalPlain), kept[i].href))]
      bodies == SelectSeq(served, LAMBDA b : b # 0)
  IN  SelectSeq([i \in 1..Len(bodies) |-> SheetBodies[bodies[i]].var],
                LAMBDA v : v # <<>>)

\* C20 as claimed: the frequency count gives the result only when neither
\* the theme colour nor a custom property, inline or external, gave one: a
\* document without a theme colour and without an inline custom property
\* whose linked stylesheet holds a matching custom property returns that
\* property's value if no stylesheet request failed, however often a
\* colour is repeated in its inline CSS.
C20_StrictPriority ==
  (/\ pc = "color"
   /\ ~IsThemeHex(soup.themeColor)
   /\ soup.inlineVar = <<>>
   /\ LinkedVars(soup) # <<>>
   /\ Len(external_parts) = Len(requests)) =>
    detected.primary_color = VarColor(Head(LinkedVars(soup)))

\* ------------------------------------------------------------------------
\* C18
\* ------------------------------------------------------------------------

\* The earlier calls with the argument of call j that ran the function.
PriorRuns(j) == { k \in 1..(j - 1) : ~calls[k].hit /\ calls[k].url = calls[j].url }

\* The latest of them.
LastRun(j) == CHOOSE k \in PriorRuns(j) : \A m \in PriorRuns(j) : m <= k

\* Call j came less than 300 seconds after a call with the same argument
\* that ran the function.
WithinTtl(j) == \E k \in PriorRuns(j) : calls[j].at - calls[k].at < 300

Channel(h, i) == 16 * HexVal(h[i]) + HexVal(h[i + 1])

\* max(R, G, B) - min(R, G, B) of a 6-digit colour.
Spread(h) ==
  LET r == Channel(h, 1)
      g == Channel(h, 3)
      b == Channel(h, 5)
      hi == IF r >= g /\ r >= b THEN r ELSE IF g >= b THEN g ELSE b
      lo == IF r <= g /\ r <= b THEN r ELSE IF g <= b THEN g ELSE b
  IN  hi - lo

\* A colour in lower case, a 3-digit one doubled per digit.
Doubled(h) ==
  StrLower(IF Len(h) = 3 THEN <<h[1], h[1], h[2], h[2], h[3], h[3]>> ELSE h)

\* The colours that are to be counted: the 6-digit ones, then the 3-digit
\* ones, doubled, those with a spread of 30 or more.
Counted(hex6, hex3) ==
  SelectSeq([i \in 1..Len(hex6 \o hex3) |-> Doubled((hex6 \o hex3)[i])],
            LAMBDA c : Spread(c) >= 30)

\* The colour the frequency steps are to give for the document and the
\* stylesheets read: the most frequent counted inline colour when it occurs
\* three times, else the most frequent of the inline colours taken three
\* times and the external ones, "" when nothing is counted.
FrequencyColor ==
  LET inl == Counted(soup.inlineHex6, soup.inlineHex3)
      ext == Counted(FlatHex6(external_parts), FlatHex3(external_parts))
      all == inl \o inl \o inl \o ext
  IN  IF inl # <<>> /\ Count(inl, MostCommon(inl)) >= 3
      THEN "#" \o Joined(MostCommon(inl))
      ELSE IF all # <<>> THEN "#" \o Joined(MostCommon(all)) ELSE ""

\* C21: a colour takes part in the frequency count of
\* _extract_primary_color exactly when max(R,G,B) - min(R,G,B) >= 30, in
\* the inline CSS and in the stylesheets alike, 3-digit colours doubled per
\* digit and counted with the equal 6-digit colour: a document whose colour
\* comes from the count gets the most frequent of exactly those colours,
\* and none when every colour is neutral.
C21_NeutralFilter ==
  (/\ pc = "color"
   /\ ~IsThemeHex(soup.themeColor)
   /\ soup.inlineVar = <<>>
   /\ \A i \in 1..Len(external_parts) : external_parts[i].var = <<>>) =>
    detected.primary_color = FrequencyColor

\* A document with one colour of spread exactly 30 in its inline CSS, and
\* a stylesheet read with greys and other colours: the colour of spread 30
\* is returned, in lower case.
C21_Witness ==
  /\ pc = "color"
  /\ soup.inlineHex6 = <<Spread30>>
  /\ soup.inlineHex3 = << <<"8", "8", "8">>, <<"8", "8", "8">>, <<"8", "8", "8">> >>
  /\ Len(external_parts) = 1
  /\ Grey \in { external_parts[1].hex6[i] : i \in 1..Len(external_parts[1].hex6) }
  /\ detected.primary_color = "#80809e"

\* ------------------------------------------------------------------------
\* C22
\* ------------------------------------------------------------------------

\* The fields of _detect_site_metadata by the block that sets them, each
\* with the parts of the document the block reads.
FieldGroups ==
  { [fields |-> {"booking", "resy_url", "opentable_rid"},
     reads  |-> {"resyWidget", "resyCities", "resyLong", "resyShort", "otMarker", "otRid"}],
    [fields |-> {"tripleseat_form_id"}, reads |-> {"tripleseat", "leadFormId"}],
    [fields |-> {"mailing_list_url"}, reads |-> {"mailAnchors", "mailPlatform"}],
    [fields |-> {"order_online_url"}, reads |-> {"orderOnline"}],
    [fields |-> {"facebook_url"}, reads |-> {"fbSlug"}],
    [fields |-> {"instagram_url"}, reads |-> {"igSlug"}],
    [fields |-> {"phone"}, reads |-> {"telHref", "ariaPhone", "labelPhone"}],
    [fields |-> {"email_general", "email_events", "email_marketing", "email_press"},
     reads  |-> {"emails"}],
    [fields |-> {"address", "google_maps_url"}, reads |-> {"mapsHref", "mapsText"}] }

\* The document with everything but the parts in reads taken out.
Only(page, reads) ==
  [ k \in DOMAIN BlankPage |-> IF k \in reads THEN page[k] ELSE BlankPage[k] ]

\* C22 as claimed: every field's heuristic runs whatever the other fields'
\* markers are; a document with Resy markers, a Resy venue link and an
\* OpenTable widget URL with a rid gets both resy_url and opentable_rid.
C22_AllFieldsIndependent ==
  (/\ pc = "metadata"
   /\ soup.resyWidget \/ soup.resyCities
   /\ soup.resyShort # <<>>
   /\ soup.otMarker
   /\ soup.otRid # "") =>
    /\ detected.resy_url # ""
    /\ detected.opentable_rid = soup.otRid

\* C22: the blocks of _detect_site_metadata do not depend on each other:
\* the fields of a block are what the block gives on the document with
\* every other block's markers taken out. Within the booking block Resy
\* comes first: a document with a Resy marker gets booking "Resy" and no
\* opentable_rid whatever OpenTable markers it holds, and the OpenTable
\* markers count only on a document without Resy markers.
C22_BlocksIndependent ==
  pc = "metadata" =>
    /\ \A g \in FieldGroups : \A f \in g.fields :
         detected[f] = _detect_site_metadata(Only(soup, g.reads))[f]
    /\ (soup.resyWidget \/ soup.resyCities) =>
         /\ detected.booking = "Resy"
         /\ detected.opentable_rid = ""
    /\ (~soup.resyWidget /\ ~soup.resyCities /\ soup.otMarker) =>
         /\ detected.booking = "OpenTable"
         /\ detected.opentable_rid = soup.otRid
         /\ detected.resy_url = ""

\* A document with a Resy venue link, an OpenTable widget with a rid, a
\* Tripleseat form, a phone and a Facebook link: everything is detected
\* but the rid.
C22_Witness ==
  /\ pc = "metadata"
  /\ soup.resyCities /\ ~soup.resyWidget
  /\ soup.otMarker /\ soup.otRid = "4242"
  /\ detected.booking = "Resy"
  /\ detected.resy_url = "https://resy.com/cities/philadelphia-pa/venues/parc"
  /\ detected.opentable_rid = ""
  /\ detected.tripleseat_form_id = "777"
  /\ detected.phone = "(215) 555-0100"
  /\ detected.facebook_url = "https://www.facebook.com/parcphl"

\* ------------------------------------------------------------------------
\* C23
\* ------------------------------------------------------------------------

\* The first element of a list a test accepts, 0 when there is none.
FirstIndex(seq, Test(_)) ==
  IF \E i \in 1..Len(seq) : Test(seq[i])
  THEN CHOOSE i \in 1..Len(seq) : Test(seq[i]) /\ \A j \in 1..(i - 1) : ~Test(seq[j])
  ELSE 0

\* The width a <link> declares: a number before the first 'x' of sizes.
DeclaresWidth(l) == l.sizes # <<>> /\ SizesWidth(l.sizes) # -1

LogoBase == BaseUrl(FinalPlain)

\* No <img> of the document qualifies for steps 1 to 3.
NoLogoImg == \A i \in 1..Len(soup.imgs) : ~soup.imgs[i].explicit /\ ~soup.imgs[i].hint

\* C23 as claimed: without a qualifying <img> the logo is the first
\* rel="icon" link that declares a width of at least 100, and the empty
\* string when the icons have smaller, missing or unparseable sizes.
C23_IconNeedsDeclaredWidth ==
  (pc = "logo" /\ NoLogoImg) =>
    LET k == FirstIndex(soup.icons, LAMBDA l :
                 "icon" \in l.rels /\ DeclaresWidth(l) /\ SizesWidth(l.sizes) >= 100)
    IN  detected.logo_url = IF k = 0 THEN "" ELSE UrlJoin(LogoBase, soup.icons[k].href)

\* C23: the steps are tried in order, the first explicit logo class, then
\* the first hinted <img> inside <header>/<nav>, then the first hinted <img>
\* anywhere; without a qualifying <img> the logo is the first rel="icon"
\* link that does not declare a width below 100 (so one with a width of at
\* least 100, without sizes or with sizes that is not a number), and the
\* empty string when every icon declares a width below 100 or there is none.
C23_LogoFallback ==
  pc = "logo" =>
    LET e == FirstIndex(soup.imgs, LAMBDA i : i.explicit)
        h == FirstIndex(soup.imgs, LAMBDA i : i.hint /\ i.inHeader)
        a == FirstIndex(soup.imgs, LAMBDA i : i.hint)
        k == FirstIndex(soup.icons, LAMBDA l :
                 "icon" \in l.rels /\ ~(DeclaresWidth(l) /\ SizesWidth(l.sizes) < 100))
    IN  detected.logo_url =
          IF e # 0 THEN UrlJoin(LogoBase, soup.imgs[e].src)
          ELSE IF h # 0 THEN UrlJoin(LogoBase, soup.imgs[h].src)
          ELSE IF a # 0 THEN UrlJoin(LogoBase, soup.imgs[a].src)
          ELSE IF k # 0 THEN UrlJoin(LogoBase, soup.icons[k].href)
          ELSE ""

\* A document with one unhinted <img>, a 32-pixel icon and an icon without
\* sizes after it: the second icon is the logo.
C23_Witness ==
  /\ pc = "logo"
  /\ NoLogoImg /\ Len(soup.imgs) = 1
  /\ Len(soup.icons) = 2
  /\ soup.icons[2].sizes = <<>>
  /\ detected.logo_url = "https://example.com/icon-b.png"

\* ------------------------------------------------------------------------
\* C24
\* ------------------------------------------------------------------------

\* u is base_url + subpath for a conventional subpath.
Conventional(u) ==
  /\ u.scheme = HomeFinal.scheme
  /\ u.netloc = HomeFinal.netloc
  /\ u.path \in _COMMON_SUBPATHS

\* u is what an <a> of the home page resolves to, query and fragment
\* left out: the anchor is relative or names the final host, and its
\* lowercased slash-trimmed path is non-empty and holds a keyword.
FromAnchor(u) ==
  \E k \in 1..Len(HomePage.anchors) :
    LET a == HomePage.anchors[k]
        trimmed == Strip(StrLower(a.path), "/")
    IN  /\ a.host \in {"", HomeFinal.netloc}
        /\ u.netloc = HomeFinal.netloc
        /\ u.scheme = (IF a.host = "" THEN HomeFinal.scheme ELSE a.scheme)
        /\ u.path = a.path
        /\ trimmed # <<>>
        /\ \E kw \in _SUBPAGE_KEYWORDS : Contains(trimmed, kw)

\* C24: every subpage URL scrape_website requests is on the host of the
\* final home-page URL and is either a conventional path on the final
\* scheme and host or a same-host anchor's scheme, host and path (no query,
\* no fragment) whose trimmed lowercased path is non-empty and holds a
\* keyword; and at the return every conventional URL was requested unless
\* the ten requests made all sort before it.
C24_SameHostSubpages ==
  (InScrape /\ HomeOk) =>
    /\ \A i \in 1..Len(SubRequests) :
         /\ SubRequests[i].url.netloc = HomeFinal.netloc
         /\ Conventional(SubRequests[i].url) \/ FromAnchor(SubRequests[i].url)
    /\ AtReturn =>
         \A p \in _COMMON_SUBPATHS :
           \/ \E i \in 1..Len(SubRequests) :
                SubRequests[i].url = Url(HomeFinal.scheme, HomeFinal.netloc, p)
           \/ /\ Len(SubRequests) = MAX_SUBPAGES
              /\ \A i \in 1..Len(SubRequests) :
                   \/ SubRequests[i].url.scheme # HomeFinal.scheme
                   \/ LexLess(SubRequests[i].url.path, p)

\* The home page behind the redirect to the www host, with a relative
\* anchor to /our-story/ and an absolute one to the typed host's
\* /menus/dinner: the first is requested on the www host, the second is
\* not requested, and all ten requests are on the www host.
C24_Witness ==
  /\ AtReturn
  /\ home = 5
  /\ HomeFinal.netloc = "www.example.com"
  /\ url.netloc = Example
  /\ Len(SubRequests) = MAX_SUBPAGES
  /\ \E i \in 1..Len(SubRequests) :
       SubRequests[i].url = Url("https", "www.example.com", OurStory)
  /\ \A i \in 1..Len(SubRequests) :
       /\ SubRequests[i].url.netloc = "www.example.com"
       /\ SubRequests[i].url.path # MenusDinner

\* ------------------------------------------------------------------------
\* C25
\* ------------------------------------------------------------------------

\* C25 as claimed: in the detected mapping scrape_website returns, booking
\* is "", "Resy" or "OpenTable", a non-empty opentable_rid comes with
\* booking "OpenTable" and a non-empty resy_url with booking "Resy".
C25_BookingConsistent ==
  (AtReturn /\ result.ok) =>
    /\ result.detected["booking"] \in {"", "Resy", "OpenTable"}
    /\ result.detected["opentable_rid"] # "" => result.detected["booking"] = "OpenTable"
    /\ result.detected["resy_url"] # "" => result.detected["booking"] = "Resy"

\* ------------------------------------------------------------------------
\* C26
\* ------------------------------------------------------------------------

\* What the three brand extractors give on the home page.
HomeBrand(f) ==
  CASE f = "primary_color" -> _extract_primary_color(HomePage, external_parts)
    [] f = "logo_url" -> _extract_logo_url(HomePage, BaseUrl(HomeFinal))
    [] f = "favicon_url" -> _extract_favicon_url(HomePage, BaseUrl(HomeFinal))

\* C26: before the first subpage GET primary_color, logo_url and
\* favicon_url of detected are what the extractors gave on the home page;
\* no step of the subpage loop changes any of the three, the empty string
\* included, whatever the fetched subpage holds, and a result with ok=true
\* returns them as they were.
C26_BrandFromHomeOnly ==
  /\ []((pc = "sub" /\ outcomes = <<>>) =>
          \A f \in BrandFields : detected[f] = HomeBrand(f))
  /\ [][ pc = "sub" =>
           \A f \in BrandFields :
             /\ detected'[f] = detected[f]
             /\ (pc' = "returned" /\ result'.ok) => result'.detected[f] = detected[f] ]_vars

\* A home page without theme colour, CSS colours or logo, and a fetched
\* subpage with a theme-color meta, a custom-logo <img> and an
\* apple-touch-icon: the returned colour and logo are empty and the favicon
\* is the home page's /favicon.ico.
C26_Witness ==
  /\ AtReturn
  /\ result.ok
  /\ \E i \in LiveIndexes :
       /\ IsThemeHex(SubPages[outcomes[i]].themeColor)
       /\ \E k \in 1..Len(SubPages[outcomes[i]].imgs) : SubPages[outcomes[i]].imgs[k].explicit
       /\ SubPages[outcomes[i]].icons # <<>>
  /\ result.detected["primary_color"] = ""
  /\ result.detected["logo_url"] = ""
  /\ result.detected["favicon_url"] = "https://example.com/favicon.ico"

\* ------------------------------------------------------------------------
\* C27
\* ------------------------------------------------------------------------

\* What the extraction gives for field f on the document request k brought.
SubValue(k, f) == _detect_site_metadata(SubPages[outcomes[k]])[f]

\* The requests, in order, whose document's cleaned text is longer than 30.
TextIndexes ==
  SelectSeq([ i \in 1..Len(outcomes) |-> i ],
            LAMBDA k : outcomes[k] # 0 /\ SubPages[outcomes[k]].text > 30)

\* C27: the text parts are those of the fetched subpages whose cleaned text
\* is longer than 30 characters, in request order; every fetched subpage,
\* whatever its text length, fills the fields the pages before it left
\* empty; and a field's value comes from the home page or a fetched
\* subpage, so a failed fetch adds neither text nor metadata.
C27_TextAndMetadata ==
  (HomeOk /\ pc \in {"sub", "returned"}) =>
    /\ subpage_parts =
         [ j \in 1..Len(TextIndexes) |->
             SubpagePart(SubRequests[TextIndexes[j]].url.path,
                         SubPages[outcomes[TextIndexes[j]]].text) ]
    /\ \A k \in LiveIndexes : \A f \in MetaFields :
         SubValue(k, f) # "" =>
           /\ detected[f] # ""
           /\ ( /\ _detect_site_metadata(HomePage)[f] = ""
                /\ \A j \in LiveIndexes : j < k => SubValue(j, f) = "" )
              => detected[f] = SubValue(k, f)
    /\ \A f \in MetaFields :
         detected[f] \in { _detect_site_metadata(HomePage)[f] }
                           \cup { SubValue(k, f) : k \in LiveIndexes }

\* A returned result after a failed fetch, a fetched subpage of 30
\* characters and one of 31: the first gave nothing, the second gave the
\* map link but no text part, the third gave the only text part.
C27_Witness ==
  /\ AtReturn
  /\ result.ok
  /\ \E i \in 1..Len(outcomes) : outcomes[i] = 0
  /\ \E k \in LiveIndexes :
       /\ SubPages[outcomes[k]].text = 30
       /\ SubValue(k, "google_maps_url") # ""
       /\ result.detected["google_maps_url"] = SubValue(k, "google_maps_url")
  /\ \E k \in LiveIndexes : SubPages[outcomes[k]].text = 31
  /\ Len(subpage_parts) = 1
  /\ subpage_parts[1][2].len = 31

\* ------------------------------------------------------------------------
\* C30
\* ------------------------------------------------------------------------

\* p is the text t or t cut somewhere.
IsPrefix(p, t) ==
  /\ Len(p) <= Len(t)
  /\ \A i \in 1..Len(p) :
       /\ p[i].kind = t[i].kind
       /\ p[i].path = t[i].path
       /\ IF i < Len(p) THEN p[i].len = t[i].len
          ELSE p[i].len > 0 /\ p[i].len <= t[i].len

\* C30: after a Generate click whose scrape returned ok=true, the website
\* text in the prompt is the first 6000 characters of the returned text
\* (the whole text when it is shorter), and the single-section prompt of
\* every section embeds the same characters.
C30_PromptCut ==
  (pc = "done" /\ flow = "Generate" /\ result.ok) =>
    /\ IsPrefix(prompt, result.text)
    /\ TextLen(prompt) = IF TextLen(result.text) < 6000 THEN TextLen(result.text) ELSE 6000
    /\ \A s \in SectionIds : PromptText(result.text, s) = prompt

\* A returned text of 8000 characters holding a subpage's 7000 characters
\* whole: the prompt has 6000 characters and ends inside that subpage's
\* text.
C30_Witness ==
  /\ pc = "done"
  /\ flow = "Generate"
  /\ result.ok
  /\ TextLen(result.text) = 8000
  /\ TextLen(prompt) = 6000
  /\ \E i \in 1..Len(result.text) :
       /\ result.text[i].kind = "text"
       /\ result.text[i].len = 7000
       /\ Len(prompt) = i
       /\ prompt[i].kind = "text"
       /\ prompt[i].path = result.text[i].path
       /\ prompt[i].len < 7000

\* ------------------------------------------------------------------------
\* C28
\* ------------------------------------------------------------------------

\* The rows of restaurant name in the three tables.
RowsOf(t, name) ==
  [ restaurants   |-> { r \in t.restaurants : r.name = name },
    images        |-> { r \in t.images : r.restaurant = name },
    copy_sections |-> { r \in t.copy_sections : r.restaurant = name } ]

NoRows == [restaurants |-> {}, images |-> {}, copy_sections |-> {}]

\* C28: a delete_restaurant(name) call, after any sequence of
\* add_restaurant, save_image, save_copy_section and save_all_copy calls,
\* leaves no row of that restaurant in restaurants, images or copy_sections
\* and leaves the rows of every other restaurant as they were.
C28_DeleteRemovesAll ==
  [][ call'.fn = "delete_restaurant" =>
        /\ RowsOf(tables', call'.name) = NoRows
        /\ \A other \in Names \ {call'.name} :
             RowsOf(tables', other) = RowsOf(tables, other) ]_vars

\* Right after a delete_restaurant of a restaurant: nothing of it is left,
\* and the other restaurant still has its row, an image and both copy
\* sections.
C28_Witness ==
  /\ call = DbCall("delete_restaurant", "Parc")
  /\ RowsOf(tables, "Parc") = NoRows
  /\ RowsOf(tables, "Buddakan").restaurants # {}
  /\ RowsOf(tables, "Buddakan").images # {}
  /\ Cardinality(RowsOf(tables, "Buddakan").copy_sections) = 2

\* ------------------------------------------------------------------------
\* C29
\* ------------------------------------------------------------------------

\* C29: the add_restaurant call of an Add click leaves an existing row as
\* it is, and a second call with any URL changes nothing after the first;
\* the rest of the Add flow never stores the typed URL in the row, while
\* every non-empty field the scrape returned is written to the row and to
\* session state over what was stored.
C29_ReAddKeepsRow ==
  [][ /\ (pc = "idle" /\ flow' = "Add") =>
           /\ db.exists => db' = db
           /\ \A again \in TypedUrls \cup {NoUrl} : add_restaurant(db', again) = db'
      /\ (pc = "returned" /\ flow = "Add") =>
           /\ db'.url = db.url
           /\ result.ok =>
                \A f \in StoredFields :
                  Get(result.detected, f) # "" =>
                    /\ db'.fields[f] = result.detected[f]
                    /\ session'.fields[f] = result.detected[f] ]_vars

\* A finished Add of a restaurant stored with https://example.com and a
\* Resy link entered by hand, re-added with example.com typed: the row
\* keeps the stored URL, session state has the typed one, and the stored
\* Resy link is replaced by the one scraped.
C29_Witness ==
  /\ pc = "done"
  /\ flow = "Add"
  /\ result.ok
  /\ session.url = Url("", Example, <<>>)
  /\ db.url = StoredUrl
  /\ result.detected["resy_url"] = "https://resy.com/cities/philadelphia-pa/venues/parc"
  /\ db.fields["resy_url"] = result.detected["resy_url"]

====
